---- MODULE Spec2Model ----
(***************************************************************************)
(* Text-to-SQL pipeline of trimstone-text2sql-dev: the LangGraph workflow  *)
(* (graph/workflow.py), its six agents (agents/*.py), the text helpers     *)
(* (utils/helpers.py) and the approval handler of the Streamlit app        *)
(* (app.py).                                                               *)
(*                                                                         *)
(* A Python str is a sequence of one-character strings, so that the        *)
(* character-level functions (upper, strip, split, the regex searches) are *)
(* computed as the code computes them.  A Python Optional value is <<>>    *)
(* for None and <<v>> for the value v.  The state is the dict the node      *)
(* functions mutate and return, with every key they set.                   *)
(***************************************************************************)
EXTENDS Naturals, Integers, Sequences, FiniteSets, TLC

VARIABLES
    state,        \* the GraphState dict threaded through the stages
    pc,           \* the node the workflow is about to run; "idle", "done" between runs
    oracle_calls, \* model.generate_content calls made on this state, per stage
    store_calls,  \* the SQL texts the executor gave to db_connection.execute_query on
                  \* this state (the introspection queries of a schema refresh are
                  \* part of what get_schema answers)
    stages,       \* the stages that have run on this state, in order
    schema_seen,  \* what schema_cache.get_schema() gave the schema stage on this state
    sql_reply,    \* what the oracle gave the synthesis stage on this state
    validated_sql,\* the SQL text validate_sql ended with step = validated on, if any
    approval,     \* an approval signal has been given for this state
    runs,         \* pipeline runs started so far
    has_to_unicode, \* the installed sqlparse still has Token.to_unicode() (before 0.2)
    limit_call,   \* a call of ensure_top_limit on its own: its arguments and what it gave
    cache,        \* SchemaCache.cache: the snapshot in memory, None for {}
    cache_file,   \* the document schema_cache.json: None while the file does not exist
    now,          \* time.time()
    threads,      \* per thread calling the schema cache: where it is in the call and
                  \* its local schema dict
    returned,     \* the call of the schema cache that ended last: the call and what it
                  \* returned or raised
    introspections, \* calls of db_connection.get_all_tables so far
    loads         \* calls of load_manual_schema and load_schema_from_excel so far

pipeline_vars == <<state, pc, oracle_calls, store_calls, stages, schema_seen, sql_reply,
                   validated_sql, approval, runs, has_to_unicode, limit_call>>

cache_vars == <<cache, cache_file, now, threads, returned, introspections, loads>>

vars == <<pipeline_vars, cache_vars>>

None == <<>>
Some(v) == <<v>>
Val(o) == o[1]

---------------------------------------------------------------------------
(* Python str primitives, on sequences of characters.                      *)

LowerLetters == <<"a","b","c","d","e","f","g","h","i","j","k","l","m",
                  "n","o","p","q","r","s","t","u","v","w","x","y","z">>
UpperLetters == <<"A","B","C","D","E","F","G","H","I","J","K","L","M",
                  "N","O","P","Q","R","S","T","U","V","W","X","Y","Z">>
LowerSet == {LowerLetters[i] : i \in 1..Len(LowerLetters)}
UpperSet == {UpperLetters[i] : i \in 1..Len(UpperLetters)}
DigitSeq == <<"0","1","2","3","4","5","6","7","8","9">>
DigitSet == {DigitSeq[i] : i \in 1..Len(DigitSeq)}
Whitespace == {" ", "\n", "\t"}

UpperOf == [c \in LowerSet |-> UpperLetters[CHOOSE i \in 1..Len(LowerLetters) : LowerLetters[i] = c]]
LowerOf == [c \in UpperSet |-> LowerLetters[CHOOSE i \in 1..Len(UpperLetters) : UpperLetters[i] = c]]

chr_upper(c) == IF c \in LowerSet THEN UpperOf[c] ELSE c
chr_lower(c) == IF c \in UpperSet THEN LowerOf[c] ELSE c

\* \w of the re module
IsWordChar(c) == c \in LowerSet \cup UpperSet \cup DigitSet \cup {"_"}

str_upper(s) == [i \in 1..Len(s) |-> chr_upper(s[i])]
str_lower(s) == [i \in 1..Len(s) |-> chr_lower(s[i])]

RECURSIVE str_lstrip(_, _)
str_lstrip(s, chars) ==
    IF s # <<>> /\ Head(s) \in chars THEN str_lstrip(Tail(s), chars) ELSE s

RECURSIVE str_rstrip(_, _)
str_rstrip(s, chars) ==
    IF s # <<>> /\ s[Len(s)] \in chars THEN str_rstrip(SubSeq(s, 1, Len(s) - 1), chars) ELSE s

str_strip(s) == str_rstrip(str_lstrip(s, Whitespace), Whitespace)

MatchAt(s, sub, i) == i >= 1 /\ i + Len(sub) - 1 <= Len(s) /\ SubSeq(s, i, i + Len(sub) - 1) = sub

\* sub in s
str_in(sub, s) == \E i \in 1..(Len(s) + 1) : MatchAt(s, sub, i)

\* s.find(sub): the 0-based index of the first occurrence, -1 when there is none
str_find(s, sub) ==
    IF str_in(sub, s)
    THEN (CHOOSE i \in 1..(Len(s) + 1) :
              MatchAt(s, sub, i) /\ \A j \in 1..(i - 1) : ~MatchAt(s, sub, j)) - 1
    ELSE -1

str_startswith(s, prefix) == MatchAt(s, prefix, 1)

\* s.split(sep): the pieces between the occurrences of sep, scanned left to right
RECURSIVE str_split(_, _)
str_split(s, sep) ==
    LET k == str_find(s, sep)
    IN IF k = -1 THEN <<s>>
       ELSE <<SubSeq(s, 1, k)>> \o str_split(SubSeq(s, k + Len(sep) + 1, Len(s)), sep)

\* the text of a sequence of characters, for the messages
RECURSIVE Str(_)
Str(s) ==
    IF s = <<>> THEN ""
    ELSE IF Len(s) = 1 THEN s[1]
    ELSE LET half == Len(s) \div 2
         IN Str(SubSeq(s, 1, half)) \o Str(SubSeq(s, half + 1, Len(s)))

\* sep.join(parts) for parts that are texts
RECURSIVE str_join(_, _)
str_join(sep, parts) ==
    IF parts = <<>> THEN ""
    ELSE IF Len(parts) = 1 THEN parts[1]
    ELSE parts[1] \o sep \o str_join(sep, Tail(parts))

\* str(n) for n >= 0
RECURSIVE str_int(_)
str_int(n) == IF n < 10 THEN <<DigitSeq[n + 1]>> ELSE str_int(n \div 10) \o <<DigitSeq[(n % 10) + 1]>>

\* a search for the keyword anywhere in s, inside longer words too
re_search_anywhere(keyword, s) == \E i \in 1..Len(s) : MatchAt(s, keyword, i)

\* re.search(r'\b' + keyword + r'\b', s): keyword starts and ends with a word
\* character, so \b holds where the neighbour is missing or no word character
re_search_word(keyword, s) ==
    \E i \in 1..Len(s) :
        /\ MatchAt(s, keyword, i)
        /\ (i = 1 \/ ~IsWordChar(s[i - 1]))
        /\ (i + Len(keyword) - 1 = Len(s) \/ ~IsWordChar(s[i + Len(keyword)]))

---------------------------------------------------------------------------
(* The sqlparse library, as far as utils/helpers.py uses it.  The lexer    *)
(* cuts a text into words (runs of word characters), whitespace runs and   *)
(* single punctuation characters; quoted literals, parentheses and         *)
(* identifier lists are outside the texts of this model.                   *)

CharClass(c) == IF IsWordChar(c) THEN "word" ELSE IF c \in Whitespace THEN "space" ELSE "punct"

\* an atom starts at the first character, at each punctuation character and
\* where the class of the characters changes
AtomStarts(s) ==
    {i \in 1..Len(s) : \/ i = 1
                       \/ CharClass(s[i]) = "punct"
                       \/ CharClass(s[i - 1]) # CharClass(s[i])}

sqlparse_lex(s) ==
    LET starts == AtomStarts(s)
        nth(k) == CHOOSE i \in starts : Cardinality({j \in starts : j <= i}) = k
        last(i) == IF \E j \in starts : j > i
                   THEN (CHOOSE j \in starts : j > i /\ \A m \in starts : m > i => j <= m) - 1
                   ELSE Len(s)
    IN [k \in 1..Cardinality(starts) |-> SubSeq(s, nth(k), last(nth(k)))]

IsSpaceAtom(a) == a[1] \in Whitespace

\* the keywords of sqlparse's keyword table that the texts of this model use
SqlKeywords == {<<"S","E","L","E","C","T">>, <<"F","R","O","M">>, <<"W","H","E","R","E">>, <<"A","N","D">>, <<"O","R">>, <<"A","S">>,
                <<"D","R","O","P">>, <<"D","E","L","E","T","E">>, <<"T","R","U","N","C","A","T","E">>, <<"A","L","T","E","R">>, <<"C","R","E","A","T","E">>,
                <<"I","N","S","E","R","T">>, <<"U","P","D","A","T","E">>, <<"E","X","E","C">>, <<"E","X","E","C","U","T","E">>, <<"G","R","A","N","T">>,
                <<"R","E","V","O","K","E">>, <<"T","A","B","L","E">>, <<"N","O">>, <<"T","O">>, <<"S","C","H","E","M","A">>, <<"T","O","P">>}

\* ReindentFilter starts a new line before each of these
SplitKeywords == {<<"F","R","O","M">>, <<"W","H","E","R","E">>, <<"A","N","D">>, <<"O","R">>}

\* StatementSplitter: a statement ends with its ';'; the spaces and tabs that
\* follow belong to it, a newline starts the next statement
RECURSIVE SplitStatements(_)
SplitStatements(s) ==
    LET k == str_find(s, <<";">>)
    IN IF k = -1 THEN (IF str_strip(s) = <<>> THEN <<>> ELSE <<s>>)
       ELSE LET rest == SubSeq(s, k + 2, Len(s))
                tail == str_lstrip(rest, {" ", "\t"})
                ws   == SubSeq(rest, 1, Len(rest) - Len(tail))
            IN <<SubSeq(s, 1, k + 1) \o ws>> \o SplitStatements(tail)

\* sqlparse.parse(sql): the texts of the statements
sqlparse_parse(sql) == SplitStatements(sql)

\* keyword_case='upper' and the whitespace of StripWhitespaceFilter and
\* ReindentFilter on the atoms of one statement
RECURSIVE FormatAtoms(_, _)
FormatAtoms(atoms, i) ==
    IF i > Len(atoms) THEN <<>>
    ELSE LET a == atoms[i]
             out == IF IsSpaceAtom(a)
                    THEN (IF i = 1 \/ i = Len(atoms) THEN <<>>
                          ELSE IF str_upper(atoms[i + 1]) \in SplitKeywords THEN <<"\n">>
                          ELSE <<" ">>)
                    ELSE IF str_upper(a) \in SqlKeywords THEN str_upper(a)
                    ELSE a
         IN out \o FormatAtoms(atoms, i + 1)

FormatStatement(stmt) == FormatAtoms(sqlparse_lex(stmt), 1)

RECURSIVE JoinStatements(_)
JoinStatements(stmts) ==
    IF stmts = <<>> THEN <<>>
    ELSE IF Len(stmts) = 1 THEN FormatStatement(stmts[1])
    ELSE FormatStatement(stmts[1]) \o <<"\n", "\n">> \o JoinStatements(Tail(stmts))

\* sqlparse.format(sql, reindent=True, keyword_case='upper')
sqlparse_format(sql) == JoinStatements(sqlparse_parse(sql))

---------------------------------------------------------------------------
(* utils/helpers.py                                                        *)

\* re.sub(r'--.*$', '', sql, flags=re.MULTILINE)
RECURSIVE RemoveLineComments(_)
RemoveLineComments(s) ==
    LET k == str_find(s, <<"-", "-">>)
        rest == SubSeq(s, k + 1, Len(s))
        nl == str_find(rest, <<"\n">>)
    IN IF k = -1 THEN s
       ELSE SubSeq(s, 1, k)
                \o (IF nl = -1 THEN <<>> ELSE RemoveLineComments(SubSeq(rest, nl + 1, Len(rest))))

\* re.sub(r'/\*.*?\*/', '', sql, flags=re.DOTALL)
RECURSIVE RemoveBlockComments(_)
RemoveBlockComments(s) ==
    LET k == str_find(s, <<"/", "*">>)
        rest == SubSeq(s, k + 3, Len(s))
        e == str_find(rest, <<"*", "/">>)
    IN IF k = -1 \/ e = -1 THEN s
       ELSE SubSeq(s, 1, k) \o RemoveBlockComments(SubSeq(rest, e + 3, Len(rest)))

sanitize_sql(sql) == str_strip(sqlparse_format(RemoveBlockComments(RemoveLineComments(sql))))

dangerous_keywords ==
    <<<<"D","R","O","P">>, <<"D","E","L","E","T","E">>, <<"T","R","U","N","C","A","T","E">>, <<"A","L","T","E","R">>,
      <<"C","R","E","A","T","E">>, <<"I","N","S","E","R","T">>, <<"U","P","D","A","T","E">>, <<"E","X","E","C">>,
      <<"E","X","E","C","U","T","E">>, <<"G","R","A","N","T">>, <<"R","E","V","O","K","E">>>>

\* the keyword the loop of is_safe_query returns on: the first of the list
\* that the upper-cased text holds as a word; 0 when the loop ends
FirstDangerous(sql_upper) ==
    IF \E k \in 1..Len(dangerous_keywords) : re_search_word(dangerous_keywords[k], sql_upper)
    THEN CHOOSE k \in 1..Len(dangerous_keywords) :
             /\ re_search_word(dangerous_keywords[k], sql_upper)
             /\ \A j \in 1..(k - 1) : ~re_search_word(dangerous_keywords[j], sql_upper)
    ELSE 0

\* ';' in sql.strip().rstrip(';')
HasInnerSemicolon(sql) == str_in(<<";">>, str_rstrip(str_strip(sql), {";"}))

\* a check that searches the text as written, without upper-casing it
is_safe_query_case_sensitive(sql) ==
    LET k == FirstDangerous(sql)
    IN IF k # 0
       THEN [safe |-> FALSE,
             message |-> "Query contains dangerous keyword: " \o Str(dangerous_keywords[k])]
       ELSE IF HasInnerSemicolon(sql)
       THEN [safe |-> FALSE, message |-> "Multiple SQL statements not allowed"]
       ELSE IF ~str_startswith(str_strip(sql), <<"S","E","L","E","C","T">>)
       THEN [safe |-> FALSE, message |-> "Only SELECT queries are allowed"]
       ELSE [safe |-> TRUE, message |-> "Query is safe"]

\* a safety check that tests the start of the text before the keywords
is_safe_query_select_first(sql) ==
    LET sql_upper == str_upper(sql)
        k == FirstDangerous(sql_upper)
    IN IF ~str_startswith(str_strip(sql_upper), <<"S","E","L","E","C","T">>)
       THEN [safe |-> FALSE, message |-> "Only SELECT queries are allowed"]
       ELSE IF k # 0
       THEN [safe |-> FALSE,
             message |-> "Query contains dangerous keyword: " \o Str(dangerous_keywords[k])]
       ELSE IF HasInnerSemicolon(sql)
       THEN [safe |-> FALSE, message |-> "Multiple SQL statements not allowed"]
       ELSE [safe |-> TRUE, message |-> "Query is safe"]

is_safe_query(sql) ==
    LET sql_upper == str_upper(sql)
        k == FirstDangerous(sql_upper)
    IN IF k # 0
       THEN [safe |-> FALSE,
             message |-> "Query contains dangerous keyword: " \o Str(dangerous_keywords[k])]
       ELSE IF HasInnerSemicolon(sql)
       THEN [safe |-> FALSE, message |-> "Multiple SQL statements not allowed"]
       ELSE IF ~str_startswith(str_strip(sql_upper), <<"S","E","L","E","C","T">>)
       THEN [safe |-> FALSE, message |-> "Only SELECT queries are allowed"]
       ELSE [safe |-> TRUE, message |-> "Query is safe"]

\* extract_tables_from_query on a query the safety check passed: after the FROM
\* keyword every identifier of the statement is a table, and a WHERE clause is
\* one more entry, as the group sqlparse makes of it
RECURSIVE NamesAfterFrom(_, _, _)
NamesAfterFrom(atoms, i, from_seen) ==
    IF i > Len(atoms) \/ str_upper(atoms[i]) = <<"W","H","E","R","E">> THEN <<>>
    ELSE LET a == atoms[i]
             isname == IsWordChar(a[1]) /\ str_upper(a) \notin SqlKeywords
         IN (IF from_seen /\ isname THEN <<Str(a)>> ELSE <<>>)
            \o NamesAfterFrom(atoms, i + 1, from_seen \/ str_upper(a) = <<"F","R","O","M">>)

WhereGroup(statement) ==
    LET k == str_find(str_upper(statement), <<"W","H","E","R","E">>)
        from == str_find(str_upper(statement), <<"F","R","O","M">>)
    IN IF k = -1 \/ from = -1 \/ from > k THEN <<>>
       ELSE <<Str(str_strip(SubSeq(statement, k + 1, Len(statement))))>>

extract_tables_from_query(sql) ==
    LET statement == sqlparse_parse(sql)[1]
    IN NamesAfterFrom(sqlparse_lex(statement), 1, FALSE) \o WhereGroup(statement)

TopLimit == 100

\* ensure_top_limit reaches statement.to_unicode(): the first statement starts
\* with SELECT.  sqlparse 0.2 removed the method, and the call raises there
reaches_to_unicode(sql) ==
    LET parsed == sqlparse_parse(sql)
        tokens == SelectSeq(sqlparse_lex(parsed[1]), LAMBDA a : ~IsSpaceAtom(a))
    IN parsed # <<>> /\ tokens # <<>> /\ str_upper(tokens[1]) = <<"S","E","L","E","C","T">>

ToUnicodeError == "'Statement' object has no attribute 'to_unicode'"

\* a limit enforcer that does not look for TOP
ensure_top_limit_blind(sql, limit) ==
    LET parsed == sqlparse_parse(sql)
    IN IF parsed = <<>> THEN sql
       ELSE LET original == parsed[1]
                atoms == sqlparse_lex(original)
                tokens == SelectSeq(atoms, LAMBDA a : ~IsSpaceAtom(a))
                text_upper == str_upper(original)
                idx == str_find(text_upper, <<"S","E","L","E","C","T">>)
            IN IF tokens = <<>> \/ str_upper(tokens[1]) # <<"S","E","L","E","C","T">> THEN sql
               ELSE IF \/ str_in(<<" ","O","F","F","S","E","T"," ">>, text_upper)
                       \/ str_in(<<" ","F","E","T","C","H"," ">>, text_upper) THEN sql
               ELSE IF idx = -1 THEN sql
               ELSE SubSeq(original, 1, idx + 6) \o <<" ","T","O","P"," ">> \o str_int(limit)
                        \o SubSeq(original, idx + 7, Len(original))

\* the text ensure_top_limit returns when it returns
\* a limit enforcer that builds its result from the whole text
ensure_top_limit_whole(sql, limit) ==
    LET parsed == sqlparse_parse(sql)
    IN IF parsed = <<>> THEN sql
       ELSE LET original == parsed[1]
                atoms == sqlparse_lex(original)
                tokens == SelectSeq(atoms, LAMBDA a : ~IsSpaceAtom(a))
                text_upper == str_upper(original)
                idx == str_find(str_upper(sql), <<"S","E","L","E","C","T">>)
            IN IF tokens = <<>> \/ str_upper(tokens[1]) # <<"S","E","L","E","C","T">> THEN sql
               ELSE IF \/ str_in(<<" ","T","O","P"," ">>, text_upper)
                       \/ str_in(<<" ","O","F","F","S","E","T"," ">>, text_upper)
                       \/ str_in(<<" ","F","E","T","C","H"," ">>, text_upper) THEN sql
               ELSE IF idx = -1 THEN sql
               ELSE SubSeq(sql, 1, idx + 6) \o <<" ","T","O","P"," ">> \o str_int(limit)
                        \o SubSeq(sql, idx + 7, Len(sql))

ensure_top_limit(sql, limit) ==
    LET parsed == sqlparse_parse(sql)
    IN IF parsed = <<>> THEN sql
       ELSE LET original == parsed[1]
                atoms == sqlparse_lex(original)
                tokens == SelectSeq(atoms, LAMBDA a : ~IsSpaceAtom(a))
                text_upper == str_upper(original)
                idx == str_find(text_upper, <<"S","E","L","E","C","T">>)
            IN IF tokens = <<>> \/ str_upper(tokens[1]) # <<"S","E","L","E","C","T">> THEN sql
               ELSE IF \/ str_in(<<" ","T","O","P"," ">>, text_upper)
                       \/ str_in(<<" ","O","F","F","S","E","T"," ">>, text_upper)
                       \/ str_in(<<" ","F","E","T","C","H"," ">>, text_upper) THEN sql
               ELSE IF idx = -1 THEN sql
               ELSE SubSeq(original, 1, idx + 6) \o <<" ","T","O","P"," ">> \o str_int(limit)
                        \o SubSeq(original, idx + 7, Len(original))

---------------------------------------------------------------------------
(* graph/state.py and the initial state app.py builds for a question       *)

\* a caller that builds every state as already approved; the approval gate must
\* tell it from initial_state
initial_state_preapproved(user_query, approved) ==
    [user_query |-> user_query,
     intent |-> None,
     entities |-> <<>>,
     relevant_tables |-> <<>>,
     schema_context |-> "",
     no_schema_found |-> None,
     generated_sql |-> None,
     is_valid |-> FALSE,
     validation_message |-> "",
     safety_check |-> FALSE,
     execution_approved |-> TRUE,
     query_results |-> None,
     execution_error |-> None,
     formatted_response |-> None,
     messages |-> <<>>,
     step |-> "start",
     error |-> None,
     requires_human_approval |-> FALSE]

initial_state(user_query, approved) ==
    [user_query |-> user_query,
     intent |-> None,
     entities |-> <<>>,
     relevant_tables |-> <<>>,
     schema_context |-> "",
     no_schema_found |-> None,          \* key absent until the schema stage sets it
     generated_sql |-> None,
     is_valid |-> FALSE,
     validation_message |-> "",
     safety_check |-> FALSE,
     execution_approved |-> approved,
     query_results |-> None,
     execution_error |-> None,
     formatted_response |-> None,
     messages |-> <<>>,
     step |-> "start",
     error |-> None,
     requires_human_approval |-> FALSE]

---------------------------------------------------------------------------
(* agents/nlu_agent.py                                                     *)

\* line.replace(old, '')
RECURSIVE Flatten(_)
Flatten(parts) == IF parts = <<>> THEN <<>> ELSE Head(parts) \o Flatten(Tail(parts))
str_remove(s, old) == Flatten(str_split(s, old))

\* [e.strip() for e in text.split(',') if e.strip()]
RECURSIVE StripAll(_)
StripAll(parts) == IF parts = <<>> THEN <<>> ELSE <<str_strip(Head(parts))>> \o StripAll(Tail(parts))
CommaList(text) == SelectSeq(StripAll(str_split(text, <<",">>)), LAMBDA e : e # <<>>)

IntentTag == <<"I","n","t","e","n","t",":">>
EntitiesTag == <<"E","n","t","i","t","i","e","s",":">>
TablesTag == <<"T","a","b","l","e","s"," ","L","i","k","e","l","y"," ","N","e","e","d","e","d",":">>

\* the loop over the lines of the response; later lines overwrite earlier ones
RECURSIVE ParseLines(_, _)
ParseLines(lines, acc) ==
    IF lines = <<>> THEN acc
    ELSE LET line == Head(lines)
             next == IF str_startswith(line, IntentTag)
                     THEN [acc EXCEPT !.intent = Str(str_strip(str_remove(line, IntentTag)))]
                     ELSE IF str_startswith(line, EntitiesTag)
                     THEN [acc EXCEPT !.entities = CommaList(str_strip(str_remove(line, EntitiesTag)))]
                     ELSE IF str_startswith(line, TablesTag)
                     THEN [acc EXCEPT !.tables = CommaList(str_strip(str_remove(line, TablesTag)))]
                     ELSE acc
         IN ParseLines(Tail(lines), next)

\* reply: [ok, text, err], what model.generate_content gave or raised
analyze_intent(st, reply) ==
    IF reply.ok
    THEN LET parsed == ParseLines(str_split(reply.text, <<"\n">>),
                                  [intent |-> "unknown", entities |-> <<>>, tables |-> <<>>])
         IN [st EXCEPT !.intent = Some(parsed.intent),
                       !.entities = parsed.entities,
                       !.relevant_tables = parsed.tables,
                       !.step = "nlu_complete"]
    ELSE [st EXCEPT !.error = Some("Intent analysis failed: " \o reply.err),
                    !.step = "error"]

---------------------------------------------------------------------------
(* agents/schema_agent.py                                                  *)

stopwords == {<<"s","h","o","w">>, <<"l","i","s","t">>, <<"g","e","t">>, <<"f","i","n","d">>, <<"a","l","l">>, <<"t","h","e">>, <<"m","e">>,
              <<"f","o","r">>, <<"w","i","t","h">>, <<"i","n">>, <<"o","f">>, <<"a","n","d">>, <<"t","o","p">>}

IsTokenChar(c) == c \in LowerSet \cup DigitSet \cup {"_"}

\* re.findall(r"[a-z0-9_]+", text): the maximal runs, as a set
RECURSIVE FindRuns(_, _, _)
FindRuns(s, i, run) ==
    IF i > Len(s) THEN (IF run = <<>> THEN {} ELSE {run})
    ELSE IF IsTokenChar(s[i]) THEN FindRuns(s, i + 1, Append(run, s[i]))
    ELSE (IF run = <<>> THEN {} ELSE {run}) \cup FindRuns(s, i + 1, <<>>)

\* a tokenizer that also folds a plural: a trailing s is dropped
_tokenize_singular(text) ==
    {(IF Len(t) > 1 /\ t[Len(t)] = "s" THEN SubSeq(t, 1, Len(t) - 1) ELSE t) :
        t \in FindRuns(str_lower(text), 1, <<>>) \ stopwords}

_tokenize(text) == FindRuns(str_lower(text), 1, <<>>) \ stopwords

\* a column entry is a dict or a bare name; a bare name that matches is kept as
\* {"column_name": cname}
NormalizeColumn(col) ==
    IF col.form = "dict" THEN col
    ELSE [form |-> "dict", column_name |-> col.column_name, data_type |-> "unknown", is_nullable |-> ""]

\* a matcher that keeps every column of the table
RECURSIVE ColMatches_all(_, _)
ColMatches_all(q_tokens, cols) ==
    IF cols = <<>> THEN <<>>
    ELSE <<NormalizeColumn(Head(cols))>> \o ColMatches_all(q_tokens, Tail(cols))

RECURSIVE ColMatches(_, _)
ColMatches(q_tokens, cols) ==
    IF cols = <<>> THEN <<>>
    ELSE (IF q_tokens \cap _tokenize(Head(cols).column_name) # {}
          THEN <<NormalizeColumn(Head(cols))>> ELSE <<>>)
         \o ColMatches(q_tokens, Tail(cols))

\* a score that counts every column of the table, matched or not
TableScore_every_column(q_tokens, table) ==
    Cardinality(q_tokens \cap _tokenize(table.name)) + Len(table.columns)

TableScore(q_tokens, table) ==
    Cardinality(q_tokens \cap _tokenize(table.name)) + Len(ColMatches(q_tokens, table.columns))

\* the loop over tables.items(): the tables of score > 0, in the order of the dict
RECURSIVE MatchedTables(_, _)
MatchedTables(q_tokens, tables) ==
    IF tables = <<>> THEN <<>>
    ELSE LET t == Head(tables)
             score == TableScore(q_tokens, t)
         IN (IF score > 0
             THEN <<[name |-> t.name, score |-> score, columns |-> ColMatches(q_tokens, t.columns)]>>
             ELSE <<>>)
            \o MatchedTables(q_tokens, Tail(tables))

\* an insertion that puts a table before the tables of equal score
InsertByScore_unstable(sorted, e) ==
    LET before == SelectSeq(sorted, LAMBDA x : x.score > e.score)
        after  == SelectSeq(sorted, LAMBDA x : x.score <= e.score)
    IN before \o <<e>> \o after

\* sorted(..., key=score, reverse=True): descending, equal scores keep their order
InsertByScore(sorted, e) ==
    LET before == SelectSeq(sorted, LAMBDA x : x.score >= e.score)
        after  == SelectSeq(sorted, LAMBDA x : x.score < e.score)
    IN before \o <<e>> \o after

RECURSIVE SortByScore(_, _)
SortByScore(items, sorted) ==
    IF items = <<>> THEN sorted ELSE SortByScore(Tail(items), InsertByScore(sorted, Head(items)))

MaxSelected_six == 5 + 1
MaxSelected == 5

SelectedTables(q_tokens, tables) ==
    LET ranked == SortByScore(MatchedTables(q_tokens, tables), <<>>)
    IN SubSeq(ranked, 1, IF Len(ranked) < MaxSelected THEN Len(ranked) ELSE MaxSelected)

ColumnLine(col) ==
    LET null_text == IF col.is_nullable = "YES" THEN "NULL"
                     ELSE IF col.is_nullable # "" THEN "NOT NULL" ELSE ""
    IN "  - " \o Str(col.column_name) \o " (" \o col.data_type \o ")"
           \o (IF null_text = "" THEN "" ELSE " " \o null_text)

RECURSIVE ColumnLines(_)
ColumnLines(cols) == IF cols = <<>> THEN <<>> ELSE <<ColumnLine(Head(cols))>> \o ColumnLines(Tail(cols))

NoColumnsMarker == "Columns: (no confidently matched columns)"

RECURSIVE SchemaParts(_)
SchemaParts(selected) ==
    IF selected = <<>> THEN <<>>
    ELSE LET t == Head(selected)
         IN <<"### Table: " \o Str(t.name)>>
            \o (IF t.columns # <<>> THEN <<"Columns:">> \o ColumnLines(t.columns)
                ELSE <<NoColumnsMarker>>)
            \o SchemaParts(Tail(selected))

RECURSIVE Names(_)
Names(selected) == IF selected = <<>> THEN <<>> ELSE <<Head(selected).name>> \o Names(Tail(selected))

RECURSIVE Texts(_)
Texts(names) == IF names = <<>> THEN <<>> ELSE <<Str(Head(names))>> \o Texts(Tail(names))

AbstainMessage ==
    "No matching tables or columns found in schema cache for the user's question. Aborting SQL generation to avoid hallucination."

\* got: [ok, schema, err], what schema_cache.get_schema() returned or raised
get_relevant_schema(st, got) ==
    IF ~got.ok
    THEN [st EXCEPT !.error = Some("Schema retrieval failed: " \o got.err), !.step = "error"]
    ELSE LET q_tokens == _tokenize(st.user_query)
             selected == SelectedTables(q_tokens, got.schema.tables)
         IN IF selected = <<>>
            THEN [st EXCEPT !.relevant_tables = <<>>,
                            !.schema_context = "",
                            !.no_schema_found = Some(TRUE),
                            !.messages = Append(@, AbstainMessage),
                            !.step = "schema_abstain"]
            ELSE [st EXCEPT !.relevant_tables = Names(selected),
                            !.schema_context = str_join("\n", SchemaParts(selected)),
                            !.no_schema_found = Some(FALSE),
                            !.step = "schema_retrieved",
                            !.messages = Append(@, "Schema agent selected tables: "
                                                       \o str_join(", ", Texts(Names(selected))))]

---------------------------------------------------------------------------
(* agents/text2sql_agent.py                                                *)

\* the backquote is written ^
Fence == <<"^","^","^">>
SqlFence == <<"^","^","^","s","q","l">>

\* the text taken out of the reply: the fenced block when there is a fence
ExtractSql(text) ==
    LET sql_query == str_strip(text)
    IN IF str_in(SqlFence, sql_query)
       THEN str_strip(str_split(str_split(sql_query, SqlFence)[2], Fence)[1])
       ELSE IF str_in(Fence, sql_query)
       THEN str_strip(str_split(str_split(sql_query, Fence)[2], Fence)[1])
       ELSE sql_query

\* Text2SQLAgent.generate_sql, the node of the workflow; to_unicode: the
\* installed sqlparse has the method
Text2SQLAgent_generate_sql(st, reply, to_unicode) ==
    IF ~reply.ok
    THEN [st EXCEPT !.error = Some("SQL generation failed: " \o reply.err),
                    !.step = "error"]
    ELSE LET sanitized == sanitize_sql(ExtractSql(reply.text))
         IN IF reaches_to_unicode(sanitized) /\ ~to_unicode
            THEN [st EXCEPT !.error = Some("SQL generation failed: " \o ToUnicodeError),
                            !.step = "error"]
            ELSE [st EXCEPT !.generated_sql = Some(ensure_top_limit(sanitized, TopLimit)),
                            !.step = "sql_generated"]

SentinelMessage == "LLM returned NO_SCHEMA_MATCH sentinel."

NoSchemaMessage ==
    "No correct schema identified for the question. Cannot generate SQL without risking hallucination."

SentinelPrefix == <<"N","O","_","S","C","H","E","M","A","_","M","A","T","C","H">>

\* the module-level generate_sql(state)
generate_sql(st, reply, to_unicode) ==
    IF st.no_schema_found = Some(TRUE) \/ st.relevant_tables = <<>>
    THEN [st EXCEPT !.generated_sql = None,
                    !.is_valid = FALSE,
                    !.requires_human_approval = FALSE,
                    !.validation_message = NoSchemaMessage,
                    !.messages = Append(@, NoSchemaMessage)]
    ELSE LET sanitized == sanitize_sql(ExtractSql(reply.text))
             raises == reply.ok /\ reaches_to_unicode(sanitized) /\ ~to_unicode
             \* the local sql_query after the try statement
             sql_query == IF ~reply.ok THEN None
                          ELSE IF raises THEN Some(sanitized)
                          ELSE Some(ensure_top_limit(sanitized, TopLimit))
             after_try == IF ~reply.ok
                          THEN [st EXCEPT !.error = Some("SQL generation failed: " \o reply.err),
                                          !.step = "error"]
                          ELSE IF raises
                          THEN [st EXCEPT !.error = Some("SQL generation failed: " \o ToUnicodeError),
                                          !.step = "error"]
                          ELSE [st EXCEPT !.generated_sql = sql_query, !.step = "sql_generated"]
         IN IF sql_query # None /\ str_startswith(str_strip(Val(sql_query)), SentinelPrefix)
            THEN [after_try EXCEPT !.generated_sql = None,
                                   !.is_valid = FALSE,
                                   !.validation_message = "No correct schema identified to answer the question.",
                                   !.messages = Append(@, SentinelMessage)]
            ELSE [after_try EXCEPT !.generated_sql = sql_query]

generate_sql_calls_oracle(st) == ~(st.no_schema_found = Some(TRUE) \/ st.relevant_tables = <<>>)

---------------------------------------------------------------------------
(* agents/validator_agent.py                                               *)

\* a threshold one character lower
MinSqlLen_lower == 10 - 1

MinSqlLen == 10

\* a validator without the length rule
validate_sql_any_length(st) ==
    LET sql_query == st.generated_sql
    IN IF sql_query = None
       THEN [st EXCEPT !.is_valid = FALSE,
                       !.validation_message = "Validation error: 'NoneType' object has no attribute 'upper'",
                       !.safety_check = FALSE,
                       !.step = "validation_failed"]
       ELSE LET verdict == is_safe_query(Val(sql_query))
            IN IF ~verdict.safe
               THEN [st EXCEPT !.is_valid = FALSE,
                               !.validation_message = verdict.message,
                               !.safety_check = FALSE,
                               !.step = "validation_failed"]
               ELSE [st EXCEPT !.is_valid = TRUE,
                               !.validation_message = "Query is valid. Tables used: "
                                   \o str_join(", ", extract_tables_from_query(Val(sql_query))),
                               !.safety_check = TRUE,
                               !.step = "validated",
                               !.requires_human_approval = TRUE]

\* a validator that asks for approval on a safety rejection too
validate_sql_asks_always(st) ==
    LET sql_query == st.generated_sql
    IN IF sql_query = None
       THEN [st EXCEPT !.is_valid = FALSE,
                       !.validation_message = "Validation error: 'NoneType' object has no attribute 'upper'",
                       !.safety_check = FALSE,
                       !.step = "validation_failed"]
       ELSE LET verdict == is_safe_query(Val(sql_query))
            IN IF ~verdict.safe
               THEN [st EXCEPT !.is_valid = FALSE,
                               !.validation_message = verdict.message,
                               !.safety_check = FALSE,
                               !.step = "validation_failed",
                               !.requires_human_approval = TRUE]
               ELSE IF Val(sql_query) = <<>> \/ Len(Val(sql_query)) < 10
               THEN [st EXCEPT !.is_valid = FALSE,
                               !.validation_message = "Query is too short or empty",
                               !.safety_check = TRUE,
                               !.step = "validation_failed"]
               ELSE [st EXCEPT !.is_valid = TRUE,
                               !.validation_message = "Query is valid. Tables used: "
                                   \o str_join(", ", extract_tables_from_query(Val(sql_query))),
                               !.safety_check = TRUE,
                               !.step = "validated",
                               !.requires_human_approval = TRUE]

validate_sql(st) ==
    LET sql_query == st.generated_sql
    IN IF sql_query = None
       THEN \* is_safe_query(None) raises on sql.upper(); the except branch
            [st EXCEPT !.is_valid = FALSE,
                       !.validation_message = "Validation error: 'NoneType' object has no attribute 'upper'",
                       !.safety_check = FALSE,
                       !.step = "validation_failed"]
       ELSE LET verdict == is_safe_query(Val(sql_query))
            IN IF ~verdict.safe
               THEN [st EXCEPT !.is_valid = FALSE,
                               !.validation_message = verdict.message,
                               !.safety_check = FALSE,
                               !.step = "validation_failed"]
               ELSE IF Val(sql_query) = <<>> \/ Len(Val(sql_query)) < MinSqlLen
               THEN [st EXCEPT !.is_valid = FALSE,
                               !.validation_message = "Query is too short or empty",
                               !.safety_check = TRUE,
                               !.step = "validation_failed"]
               ELSE [st EXCEPT !.is_valid = TRUE,
                               !.validation_message = "Query is valid. Tables used: "
                                   \o str_join(", ", extract_tables_from_query(Val(sql_query))),
                               !.safety_check = TRUE,
                               !.step = "validated",
                               !.requires_human_approval = TRUE]

---------------------------------------------------------------------------
(* agents/executor_agent.py and agents/formatter_agent.py                  *)

\* outcome: [ok, rows, err], what db_connection.execute_query returned or raised
\* an executor that does not record what the store raised
execute_sql_drops_error(st, outcome) ==
    IF ~st.execution_approved
    THEN [st EXCEPT !.step = "awaiting_approval"]
    ELSE IF outcome.ok
    THEN [st EXCEPT !.query_results = Some(outcome.rows),
                    !.execution_error = None,
                    !.step = "executed"]
    ELSE [st EXCEPT !.query_results = None,
                    !.execution_error = None,
                    !.step = "execution_failed"]

\* an executor whose failure branch leaves the rows of an earlier execution
execute_sql_keeps_rows(st, outcome) ==
    IF ~st.execution_approved
    THEN [st EXCEPT !.step = "awaiting_approval"]
    ELSE IF outcome.ok
    THEN [st EXCEPT !.query_results = Some(outcome.rows),
                    !.execution_error = None,
                    !.step = "executed"]
    ELSE [st EXCEPT !.execution_error = Some(outcome.err),
                    !.step = "execution_failed"]

execute_sql(st, outcome) ==
    IF ~st.execution_approved
    THEN [st EXCEPT !.step = "awaiting_approval"]
    ELSE IF outcome.ok
    THEN [st EXCEPT !.query_results = Some(outcome.rows),
                    !.execution_error = None,
                    !.step = "executed"]
    ELSE [st EXCEPT !.query_results = None,
                    !.execution_error = Some(outcome.err),
                    !.step = "execution_failed"]

execute_sql_calls_store(st) == st.execution_approved

format_results_calls_oracle(st) == st.query_results # None /\ Val(st.query_results) # <<>>

\* a formatter that reports the failure of the oracle as a failure of the run
format_results_blocking(st, reply) ==
    IF ~format_results_calls_oracle(st)
    THEN [st EXCEPT !.formatted_response = Some("No results found for your query."),
                    !.step = "complete"]
    ELSE IF reply.ok
    THEN [st EXCEPT !.formatted_response =
                        Some("Found " \o Str(str_int(Len(Val(st.query_results)))) \o " results.\n\n"
                                 \o Str(str_strip(reply.text))),
                    !.step = "complete"]
    ELSE [st EXCEPT !.error = Some("Formatting failed: " \o reply.err),
                    !.step = "error"]

format_results(st, reply) ==
    IF ~format_results_calls_oracle(st)
    THEN [st EXCEPT !.formatted_response = Some("No results found for your query."),
                    !.step = "complete"]
    ELSE IF reply.ok
    THEN [st EXCEPT !.formatted_response =
                        Some("Found " \o Str(str_int(Len(Val(st.query_results)))) \o " results.\n\n"
                                 \o Str(str_strip(reply.text))),
                    !.step = "complete"]
    ELSE [st EXCEPT !.formatted_response = Some("Results retrieved but formatting failed: " \o reply.err),
                    !.step = "complete"]

---------------------------------------------------------------------------
(* graph/workflow.py: the edges                                            *)

\* an edge that looks at the approval only
should_execute_unvalidated(st) == IF st.execution_approved THEN "executor" ELSE "end"

should_execute(st) ==
    IF st.is_valid /\ st.execution_approved THEN "executor"
    ELSE IF ~st.is_valid THEN "end"
    ELSE "end"

\* an edge that skips the formatter for an empty list of rows
should_format_nonempty(st) ==
    IF st.query_results # None /\ Val(st.query_results) # <<>> THEN "formatter" ELSE "end"

should_format(st) == IF st.query_results # None THEN "formatter" ELSE "end"

---------------------------------------------------------------------------
(* The collaborators' answers: the text oracle, the schema store and the   *)
(* relational store answer with one of a few values or fail.               *)

MaxRuns == 2     \* pipeline runs per session
MaxExec == 2     \* clicks on "Approve & Execute" per pipeline state

Reply(text) == [ok |-> TRUE, text |-> text, err |-> ""]
Failure(err) == [ok |-> FALSE, text |-> <<>>, err |-> err]
OracleFailures == {Failure("RateLimited"), Failure("Unavailable")}

Sentinel == <<"N","O","_","S","C","H","E","M","A","_","M","A","T","C","H",":"," ","N","o"," ","c","o","r","r","e","c","t"," ","s","c","h","e","m","a"," ","i","d","e","n","t","i","f","i","e","d"," ","t","o"," ","a","n","s","w","e","r"," ","t","h","e"," ","q","u","e","s","t","i","o","n",".">>

R_Delete == <<"D","E","L","E","T","E"," ","F","R","O","M"," ","c","l","i","e","n","t">>
R_Select == <<"S","E","L","E","C","T"," ","n","a","m","e"," ","F","R","O","M"," ","c","l","i","e","n","t">>
R_Fenced == <<"^","^","^","s","q","l","\n","S","E","L","E","C","T"," ","n","a","m","e"," ","F","R","O","M"," ","c","l","i","e","n","t","\n","^","^","^">>
R_NearSentinel == <<"N","O","_","S","C","H","E","M","A","_","M","A","T","C","H",":"," ","t","h","e"," ","s","c","h","e","m","a"," ","h","a","s"," ","n","o"," ","s","u","c","h"," ","t","a","b","l","e",".">>
R_TwoStatements == <<"S","E","L","E","C","T"," ","1",";"," ","S","E","L","E","C","T"," ","2">>
R_Drop == <<" "," ","d","r","o","p"," "," "," ","t","a","b","l","e"," ","X">>
R_Top == <<"s","e","l","e","c","t"," ","t","o","p"," ","5"," ","n","a","m","e"," ","f","r","o","m"," ","c","l","i","e","n","t"," ","w","h","e","r","e"," ","c","i","t","y"," ","="," ","1"," ","-","-"," ","f","i","v","e">>
R_Prose == <<"I"," ","c","a","n","n","o","t"," ","h","e","l","p"," ","w","i","t","h"," ","t","h","a","t",".">>

SqlReplies ==
    {Reply(t) : t \in {R_Delete, R_Select, R_Fenced, Sentinel, R_NearSentinel,
                       R_TwoStatements, R_Drop, R_Top, R_Prose}}
        \cup OracleFailures

NluReplies ==
    {Reply(<<"I","n","t","e","n","t",":"," ","l","i","s","t","\n","E","n","t","i","t","i","e","s",":"," ","n","e","w"," ","y","o","r","k",","," ","c","l","i","e","n","t","\n","T","a","b","l","e","s"," ","L","i","k","e","l","y"," ","N","e","e","d","e","d",":"," ","c","l","i","e","n","t">>),
     Reply(<<"E","n","t","i","t","i","e","s",":"," ","\n","I","n","t","e","n","t",":"," ","c","o","u","n","t">>),
     Failure("Unavailable")}

FormatReplies == {Reply(<<" ","T","w","o"," ","c","l","i","e","n","t","s"," ","a","r","e"," ","i","n"," ","N","e","w"," ","Y","o","r","k","."," ">>), Failure("RateLimited")}

Column(name, dtype, nullable) ==
    [form |-> "dict", column_name |-> name, data_type |-> dtype, is_nullable |-> nullable]
BareColumn(name) == [form |-> "str", column_name |-> name, data_type |-> "", is_nullable |-> ""]
Table(name, columns) == [name |-> name, columns |-> columns]

\* the tables of a snapshot in the order of the dict
ClientCity == <<Table(<<"c","l","i","e","n","t">>, <<Column(<<"c","i","t","y">>, "NVARCHAR(100)", "YES")>>)>>

SixTables ==
    <<Table(<<"c","l","i","e","n","t">>, <<Column(<<"i","d">>, "INT", "NO"), Column(<<"n","a","m","e">>, "NVARCHAR(255)", "YES"),
                          Column(<<"c","i","t","y">>, "NVARCHAR(100)", "YES")>>),
      Table(<<"c","o","n","t","a","c","t","s">>, <<Column(<<"c","l","i","e","n","t","_","i","d">>, "INT", "YES"), BareColumn(<<"n","a","m","e">>),
                            BareColumn(<<"e","m","a","i","l">>)>>),
      Table(<<"p","r","o","j","e","c","t">>, <<Column(<<"n","a","m","e">>, "NVARCHAR(255)", "YES"), Column(<<"b","u","d","g","e","t">>, "DECIMAL(18,2)", "")>>),
      Table(<<"i","n","v","o","i","c","e">>, <<Column(<<"n","a","m","e">>, "NVARCHAR(255)", "YES"), Column(<<"C","l","i","e","n","t","_","C","i","t","y">>, "NVARCHAR(100)", "NO")>>),
      Table(<<"t","a","s","k">>, <<Column(<<"n","a","m","e">>, "NVARCHAR(255)", "YES")>>),
      Table(<<"t","e","a","m">>, <<Column(<<"n","a","m","e">>, "NVARCHAR(255)", "YES"), Column(<<"c","i","t","y">>, "NVARCHAR(100)", "YES"),
                        Column(<<"b","u","d","g","e","t">>, "INT", "YES")>>)>>

Got(tables) == [ok |-> TRUE, schema |-> [tables |-> tables], err |-> ""]
GotFailure(err) == [ok |-> FALSE, schema |-> [tables |-> <<>>], err |-> err]

SchemaOutcomes == {Got(ClientCity), Got(SixTables), Got(<<>>), GotFailure("SourceUnavailable")}

Q_ClientsNewYork == <<"s","h","o","w"," ","c","l","i","e","n","t","s"," ","i","n"," ","n","e","w"," ","y","o","r","k">>
Q_ClientCity == <<"S","h","o","w"," ","t","h","e"," ","c","l","i","e","n","t"," ","c","i","t","y">>
Q_Orders == <<"l","i","s","t"," ","a","l","l"," ","o","r","d","e","r","s">>

Questions == {Q_ClientsNewYork, Q_ClientCity, Q_Orders}

Rows(rows) == [ok |-> TRUE, rows |-> rows, err |-> ""]
StoreFailure(err) == [ok |-> FALSE, rows |-> <<>>, err |-> err]
StoreOutcomes == {Rows(<<>>), Rows(<<"Acme", "Initech">>), StoreFailure("Timeout")}

---------------------------------------------------------------------------
(* The pipeline: text2sql_workflow.invoke and the handlers of app.py       *)

NoCalls == [nlu |-> 0, text2sql |-> 0, formatter |-> 0]

\* the schema cache as the pipeline sees it: get_schema() is answered by one of
\* SchemaOutcomes
Threads == {1, 2}
Idle == [pc |-> "idle", call |-> None, schema |-> None]

NoCache ==
    /\ cache = None
    /\ cache_file = None
    /\ now = 0
    /\ threads = [t \in Threads |-> Idle]
    /\ returned = None
    /\ introspections = 0
    /\ loads = 0

Fresh(st) ==
    /\ state = st
    /\ oracle_calls = NoCalls
    /\ store_calls = <<>>
    /\ stages = <<>>
    /\ schema_seen = None
    /\ sql_reply = None
    /\ validated_sql = None
    /\ has_to_unicode \in BOOLEAN

Init ==
    /\ Fresh(initial_state(<<>>, FALSE))
    /\ approval = FALSE
    /\ pc = "idle"
    /\ runs = 0
    /\ limit_call = None
    /\ NoCache

\* app.py: "Generate SQL" builds the initial state and invokes the workflow
\* (execution_approved False); another caller of the workflow may pass True
invoke(user_query, approved) ==
    /\ pc \in {"idle", "done"}
    /\ runs < MaxRuns
    /\ runs' = runs + 1
    /\ state' = initial_state(user_query, approved)
    /\ approval' = approved
    /\ oracle_calls' = NoCalls
    /\ store_calls' = <<>>
    /\ stages' = <<>>
    /\ schema_seen' = None
    /\ sql_reply' = None
    /\ validated_sql' = None
    /\ pc' = "nlu"
    /\ UNCHANGED <<has_to_unicode, limit_call>>
    /\ UNCHANGED cache_vars

Invoke == \E q \in Questions, approved \in BOOLEAN : invoke(q, approved)

NluNode ==
    /\ pc = "nlu"
    /\ \E reply \in NluReplies : state' = analyze_intent(state, reply)
    /\ oracle_calls' = [oracle_calls EXCEPT !.nlu = @ + 1]
    /\ stages' = Append(stages, "nlu")
    /\ pc' = "schema"
    /\ UNCHANGED <<store_calls, schema_seen, sql_reply, validated_sql, approval, runs, has_to_unicode, limit_call>>
    /\ UNCHANGED cache_vars

SchemaNode ==
    /\ pc = "schema"
    /\ \E got \in SchemaOutcomes :
           /\ state' = get_relevant_schema(state, got)
           /\ schema_seen' = Some(got)
    /\ stages' = Append(stages, "schema")
    /\ pc' = "text2sql"
    /\ UNCHANGED <<oracle_calls, store_calls, sql_reply, validated_sql, approval, runs, has_to_unicode, limit_call>>
    /\ UNCHANGED cache_vars

\* a synthesis node whose edge ends the run when the stage did not leave a text
Text2SqlNode_halts ==
    /\ pc = "text2sql"
    /\ \E reply \in SqlReplies :
           /\ state' = Text2SQLAgent_generate_sql(state, reply, has_to_unicode)
           /\ sql_reply' = Some(reply)
    /\ oracle_calls' = [oracle_calls EXCEPT !.text2sql = @ + 1]
    /\ stages' = Append(stages, "text2sql")
    /\ pc' = IF state'.step = "sql_generated" THEN "validator" ELSE "done"
    /\ UNCHANGED <<store_calls, schema_seen, validated_sql, approval, runs, has_to_unicode, limit_call>>
    /\ UNCHANGED cache_vars

Text2SqlNode ==
    /\ pc = "text2sql"
    /\ \E reply \in SqlReplies :
           /\ state' = Text2SQLAgent_generate_sql(state, reply, has_to_unicode)
           /\ sql_reply' = Some(reply)
    /\ oracle_calls' = [oracle_calls EXCEPT !.text2sql = @ + 1]
    /\ stages' = Append(stages, "text2sql")
    /\ pc' = "validator"
    /\ UNCHANGED <<store_calls, schema_seen, validated_sql, approval, runs, has_to_unicode, limit_call>>
    /\ UNCHANGED cache_vars

ValidatorNode ==
    /\ pc = "validator"
    /\ state' = validate_sql(state)
    /\ validated_sql' = IF state'.step = "validated" THEN state'.generated_sql ELSE None
    /\ stages' = Append(stages, "validator")
    /\ pc' = IF should_execute(state') = "executor" THEN "executor" ELSE "done"
    /\ UNCHANGED <<oracle_calls, store_calls, schema_seen, sql_reply, approval, runs, has_to_unicode, limit_call>>
    /\ UNCHANGED cache_vars

ExecutorNode ==
    /\ pc = "executor"
    /\ \E outcome \in StoreOutcomes : state' = execute_sql(state, outcome)
    /\ store_calls' = IF execute_sql_calls_store(state)
                      THEN Append(store_calls, state.generated_sql) ELSE store_calls
    /\ stages' = Append(stages, "executor")
    /\ pc' = IF should_format(state') = "formatter" THEN "formatter" ELSE "done"
    /\ UNCHANGED <<oracle_calls, schema_seen, sql_reply, validated_sql, approval, runs, has_to_unicode, limit_call>>
    /\ UNCHANGED cache_vars

FormatterNode ==
    /\ pc = "formatter"
    /\ \E reply \in FormatReplies : state' = format_results(state, reply)
    /\ oracle_calls' = IF format_results_calls_oracle(state)
                       THEN [oracle_calls EXCEPT !.formatter = @ + 1] ELSE oracle_calls
    /\ stages' = Append(stages, "formatter")
    /\ pc' = "done"
    /\ UNCHANGED <<store_calls, schema_seen, sql_reply, validated_sql, approval, runs, has_to_unicode, limit_call>>
    /\ UNCHANGED cache_vars

\* app.py: the approval buttons are shown for a stored state with a generated
\* SQL that is valid and requires approval
ApprovalOffered ==
    /\ pc = "done"
    /\ state.generated_sql # None
    /\ Val(state.generated_sql) # <<>>
    /\ state.is_valid
    /\ state.requires_human_approval

\* an approval handler that validates the stored text again before executing
ApproveAndExecute_revalidates ==
    /\ ApprovalOffered
    /\ Len(store_calls) < MaxExec
    /\ \E outcome \in StoreOutcomes, reply \in FormatReplies :
           LET approved == validate_sql([state EXCEPT !.execution_approved = TRUE])
               executed == execute_sql(approved, outcome)
               formats  == executed.query_results # None
           IN /\ state' = IF formats THEN format_results(executed, reply) ELSE executed
              /\ store_calls' = IF execute_sql_calls_store(approved)
                                THEN Append(store_calls, approved.generated_sql) ELSE store_calls
              /\ stages' = stages \o <<"validator", "executor">>
                                  \o (IF formats THEN <<"formatter">> ELSE <<>>)
              /\ oracle_calls' = IF formats /\ format_results_calls_oracle(executed)
                                 THEN [oracle_calls EXCEPT !.formatter = @ + 1] ELSE oracle_calls
    /\ approval' = TRUE
    /\ pc' = "done"
    /\ UNCHANGED <<schema_seen, sql_reply, validated_sql, runs, has_to_unicode, limit_call>>
    /\ UNCHANGED cache_vars

\* "Approve & Execute": the executor, then the formatter when there are rows
ApproveAndExecute ==
    /\ ApprovalOffered
    /\ Len(store_calls) < MaxExec
    /\ \E outcome \in StoreOutcomes, reply \in FormatReplies :
           LET approved == [state EXCEPT !.execution_approved = TRUE]
               executed == execute_sql(approved, outcome)
               formats  == executed.query_results # None
           IN /\ state' = IF formats THEN format_results(executed, reply) ELSE executed
              /\ store_calls' = IF execute_sql_calls_store(approved)
                                THEN Append(store_calls, approved.generated_sql) ELSE store_calls
              /\ stages' = stages \o <<"executor">> \o (IF formats THEN <<"formatter">> ELSE <<>>)
              /\ oracle_calls' = IF formats /\ format_results_calls_oracle(executed)
                                 THEN [oracle_calls EXCEPT !.formatter = @ + 1] ELSE oracle_calls
    /\ approval' = TRUE
    /\ pc' = "done"
    /\ UNCHANGED <<schema_seen, sql_reply, validated_sql, runs, has_to_unicode, limit_call>>
    /\ UNCHANGED cache_vars

\* "Reject": st.session_state.workflow_state = None
Reject ==
    /\ ApprovalOffered
    /\ pc' = "idle"
    /\ UNCHANGED <<state, oracle_calls, store_calls, stages, schema_seen, sql_reply,
                   validated_sql, approval, runs, has_to_unicode, limit_call>>
    /\ UNCHANGED cache_vars

Next ==
    \/ Invoke
    \/ NluNode
    \/ SchemaNode
    \/ Text2SqlNode
    \/ ValidatorNode
    \/ ExecutorNode
    \/ FormatterNode
    \/ ApproveAndExecute
    \/ Reject

Spec == Init /\ [][Next]_vars

---------------------------------------------------------------------------
(* The stages on their own, each on inputs drawn from bounded sets.        *)

MaxQuestionWords == 2   \* words of a composed question
MaxPieces == 3          \* pieces of a composed SQL text

QuestionWords == {<<"s","h","o","w">>, <<"c","l","i","e","n","t","s">>, <<"c","l","i","e","n","t">>, <<"C","i","t","y">>, <<"n","a","m","e">>,
                  <<"b","u","d","g","e","t">>, <<"e","-","m","a","i","l">>, <<"c","l","i","e","n","t","_","i","d">>}

RECURSIVE Phrases(_)
Phrases(n) ==
    IF n = 0 THEN {<<>>}
    ELSE LET shorter == Phrases(n - 1)
         IN shorter \cup {(IF p = <<>> THEN w ELSE p \o <<" ">> \o w) : p \in shorter, w \in QuestionWords}

GroundQuestions == Questions \cup Phrases(MaxQuestionWords)

SqlPieces == {<<"S","E","L","E","C","T">>, <<" ">>, <<"d","r","o","p">>, <<"D","r","O","p">>, <<"e","x","e","c">>, <<"u","t","e">>, <<";">>,
              <<"c","r","e","a","t","e","d","_","a","t">>, <<"1">>}

RECURSIVE Composed(_)
Composed(n) ==
    IF n = 0 THEN {<<>>}
    ELSE LET shorter == Composed(n - 1)
         IN shorter \cup {p \o w : p \in shorter, w \in SqlPieces}

V_DropSpaced == <<" "," ","d","r","o","p"," "," "," ","t","a","b","l","e"," ","X">>
V_DropUpper == <<"D","R","O","P"," ","T","A","B","L","E"," ","X">>
V_DropMixed == <<"D","r","O","p"," ","T","a","b","l","e"," ","X">>
V_TwoStatements == <<"S","E","L","E","C","T"," ","1",";"," ","S","E","L","E","C","T"," ","2">>
V_DoubleSemicolon == <<"S","E","L","E","C","T"," ","1",";",";">>
V_OneSemicolon == <<"S","E","L","E","C","T"," ","1",";">>
V_OneSemicolonTen == <<"S","E","L","E","C","T"," ","1","0",";">>
V_Timestamps == <<"S","E","L","E","C","T"," ","c","r","e","a","t","e","d","_","a","t",","," ","u","p","d","a","t","e","d","_","a","t"," ","F","R","O","M"," ","c","l","i","e","n","t">>
V_DropThenSelect == <<"d","r","o","p"," ","t","a","b","l","e"," ","x",";"," ","S","E","L","E","C","T"," ","1">>

\* one text per dangerous keyword, in lower case after a SELECT
V_PerKeyword == {<<"S","E","L","E","C","T"," ","x"," ">> \o str_lower(dangerous_keywords[k]) : k \in 1..Len(dangerous_keywords)}

ValidatorTexts ==
    {V_DropSpaced, V_DropUpper, V_DropMixed, V_TwoStatements, V_DoubleSemicolon,
     V_OneSemicolon, V_OneSemicolonTen, V_Timestamps, V_DropThenSelect, R_Delete}
        \cup V_PerKeyword \cup Composed(MaxPieces)

\* validate_sql on a state holding any of the texts, or no text
InitValidator ==
    /\ \E sql \in {None} \cup {Some(t) : t \in ValidatorTexts} :
           Fresh([initial_state(<<>>, FALSE) EXCEPT !.generated_sql = sql])
    /\ approval = FALSE
    /\ pc = "validator"
    /\ runs = 0
    /\ limit_call = None
    /\ NoCache

SpecValidator == InitValidator /\ [][ValidatorNode]_vars

\* get_relevant_schema on any of the questions
InitGrounding ==
    /\ \E q \in GroundQuestions : Fresh(initial_state(q, FALSE))
    /\ approval = FALSE
    /\ pc = "schema"
    /\ runs = 0
    /\ limit_call = None
    /\ NoCache

SpecGrounding == InitGrounding /\ [][SchemaNode]_vars

\* the module-level generate_sql(state) of agents/text2sql_agent.py on the state
\* the schema stage returned
GenerateSqlFunction ==
    /\ pc = "text2sql"
    /\ \E reply \in SqlReplies :
           /\ state' = generate_sql(state, reply, has_to_unicode)
           /\ sql_reply' = IF generate_sql_calls_oracle(state) THEN Some(reply) ELSE None
    /\ oracle_calls' = IF generate_sql_calls_oracle(state)
                       THEN [oracle_calls EXCEPT !.text2sql = @ + 1] ELSE oracle_calls
    /\ stages' = Append(stages, "text2sql")
    /\ pc' = "done"
    /\ UNCHANGED <<store_calls, schema_seen, validated_sql, approval, runs, has_to_unicode, limit_call>>
    /\ UNCHANGED cache_vars

InitSynthesis ==
    /\ \E q \in Questions \cup Phrases(1) : Fresh(initial_state(q, FALSE))
    /\ approval = FALSE
    /\ pc = "schema"
    /\ runs = 0
    /\ limit_call = None
    /\ NoCache

NextSynthesis ==
    \/ SchemaNode
    \/ GenerateSqlFunction

SpecSynthesis == InitSynthesis /\ [][NextSynthesis]_vars

\* ensure_top_limit on its own, applied to a text and again to what it returned
MaxLimitPieces == 3     \* pieces of a composed text given to ensure_top_limit

LimitPieces == {<<"S","E","L","E","C","T">>, <<"s","e","l","e","c","t">>, <<" ">>, <<"\n">>, <<"T","O","P">>, <<"x">>, <<";">>}

RECURSIVE LimitComposed(_)
LimitComposed(n) ==
    IF n = 0 THEN {<<>>}
    ELSE LET shorter == LimitComposed(n - 1)
         IN shorter \cup {p \o w : p \in shorter, w \in LimitPieces}

L_Select == <<"S","E","L","E","C","T"," ","n","a","m","e"," ","F","R","O","M"," ","c","l","i","e","n","t">>
L_Lower == <<" "," ","s","e","l","e","c","t"," ","n","a","m","e"," ","f","r","o","m"," ","c","l","i","e","n","t">>
L_Top == <<"S","E","L","E","C","T"," ","T","O","P"," ","5"," ","n","a","m","e"," ","F","R","O","M"," ","c","l","i","e","n","t">>
L_LowerTop == <<"s","e","l","e","c","t"," ","t","o","p"," ","5"," ","n","a","m","e"," ","f","r","o","m"," ","c","l","i","e","n","t">>
L_NewlineTop == <<"S","E","L","E","C","T","\n","T","O","P"," ","5"," ","n","a","m","e"," ","F","R","O","M"," ","c","l","i","e","n","t">>
L_NewlineOffset == <<"S","E","L","E","C","T"," ","n","a","m","e"," ","F","R","O","M"," ","c","l","i","e","n","t"," ","O","R","D","E","R"," ","B","Y"," ","n","a","m","e","\n","O","F","F","S","E","T"," ","5"," ","R","O","W","S">>
L_Fetch == <<"S","E","L","E","C","T"," ","n","a","m","e"," ","F","R","O","M"," ","c","l","i","e","n","t"," ","O","R","D","E","R"," ","B","Y"," ","n","a","m","e"," ","O","F","F","S","E","T"," ","0"," ","R","O","W","S"," ","F","E","T","C","H"," ","N","E","X","T"," ","5"," ","R","O","W","S"," ","O","N","L","Y">>
L_TwoStatements == <<"S","E","L","E","C","T"," ","1",";"," ","S","E","L","E","C","T"," ","2">>
L_Delete == <<"D","E","L","E","T","E"," ","F","R","O","M"," ","c","l","i","e","n","t">>
L_Stop == <<"S","E","L","E","C","T"," ","s","t","o","p"," ","F","R","O","M"," ","d","e","s","k","t","o","p">>

LimitTexts ==
    {L_Select, L_Lower, L_Top, L_LowerTop, L_NewlineTop, L_NewlineOffset, L_Fetch,
     L_TwoStatements, L_Delete, L_Stop} \cup LimitComposed(MaxLimitPieces)

Limits == {1, TopLimit}

Returned(text) == [ok |-> TRUE, text |-> text]
Raised == [ok |-> FALSE, text |-> <<>>]

\* what a call of ensure_top_limit gives: the text, or the AttributeError of
\* statement.to_unicode()
ensure_top_limit_call(sql, limit, to_unicode) ==
    IF reaches_to_unicode(sql) /\ ~to_unicode THEN Raised
    ELSE Returned(ensure_top_limit(sql, limit))

InitLimit ==
    /\ Fresh(initial_state(<<>>, FALSE))
    /\ approval = FALSE
    /\ runs = 0
    /\ pc = "limit"
    /\ \E sql \in LimitTexts, limit \in Limits :
           limit_call = Some([sql |-> sql, limit |-> limit, once |-> None, twice |-> None])
    /\ NoCache

\* ensure_top_limit(sql, limit)
EnsureTopLimit ==
    /\ pc = "limit"
    /\ LET call == Val(limit_call)
       IN limit_call' = Some([call EXCEPT
              !.once = Some(ensure_top_limit_call(call.sql, call.limit, has_to_unicode))])
    /\ pc' = "limit_again"
    /\ UNCHANGED <<state, oracle_calls, store_calls, stages, schema_seen, sql_reply,
                   validated_sql, approval, runs, has_to_unicode>>
    /\ UNCHANGED cache_vars

\* ensure_top_limit(ensure_top_limit(sql, limit), limit): the inner call's
\* exception is the outer expression's
EnsureTopLimitAgain ==
    /\ pc = "limit_again"
    /\ LET call == Val(limit_call)
           once == Val(call.once)
       IN limit_call' = Some([call EXCEPT
              !.twice = Some(IF once.ok
                             THEN ensure_top_limit_call(once.text, call.limit, has_to_unicode)
                             ELSE Raised)])
    /\ pc' = "done"
    /\ UNCHANGED <<state, oracle_calls, store_calls, stages, schema_seen, sql_reply,
                   validated_sql, approval, runs, has_to_unicode>>
    /\ UNCHANGED cache_vars

NextLimit ==
    \/ EnsureTopLimit
    \/ EnsureTopLimitAgain

SpecLimit == InitLimit /\ [][NextLimit]_vars

---------------------------------------------------------------------------
(* What the claims speak of.                                               *)

Ran(stage) == \E i \in 1..Len(stages) : stages[i] = stage

\* the token set of a text as the specification words it: the lower-cased
\* maximal runs of [a-z0-9_], stopwords removed
TokenRuns(text) ==
    LET l == str_lower(text)
        tokenchar(i) == l[i] \in LowerSet \cup DigitSet \cup {"_"}
        maximal(i, j) == /\ i <= j
                         /\ \A k \in i..j : tokenchar(k)
                         /\ (i = 1 \/ ~tokenchar(i - 1))
                         /\ (j = Len(l) \/ ~tokenchar(j + 1))
    IN {SubSeq(l, ij[1], ij[2]) : ij \in {p \in (1..Len(l)) \X (1..Len(l)) : maximal(p[1], p[2])}}

QuestionTokens(text) == TokenRuns(text) \ stopwords

NoOverlap(question, tables) ==
    \A t \in 1..Len(tables) :
        /\ QuestionTokens(question) \cap QuestionTokens(tables[t].name) = {}
        /\ \A c \in 1..Len(tables[t].columns) :
               QuestionTokens(question) \cap QuestionTokens(tables[t].columns[c].column_name) = {}

\* the schema stage has just run on a snapshot it obtained
Grounded == pc = "text2sql" /\ schema_seen # None /\ Val(schema_seen).ok
SeenTables == Val(schema_seen).schema.tables

Abstained == state.no_schema_found = Some(TRUE)

InLog(message) == \E i \in 1..Len(state.messages) : state.messages[i] = message

---------------------------------------------------------------------------
(* database/schema_cache.py: the module-level SchemaCache, called from the *)
(* threads of the application.  A snapshot is [timestamp, tables]; a table *)
(* entry stands for the columns the store answered for that table.         *)

CACHE_TTL == 1          \* settings.CACHE_TTL, in ticks of the clock
MaxTime == 2            \* the clock stops here
MaxIntrospections == 2  \* refreshes from the database that may start
MaxLoads == 1           \* loads of the manual or the spreadsheet schema that may run

\* what get_all_tables can answer: the tables of the database, by name
DbTables == {<<<<"c","l","i","e","n","t">>, <<"p","r","o","j","e","c","t">>>>}

ManualTables == <<<<"c","l","i","e","n","t">>, <<"c","o","n","t","a","c","t","s">>>>
ExcelTables == <<<<"c","o","n","t","a","c","t","s">>>>

Snapshot(timestamp, tables) == [timestamp |-> timestamp, tables |-> tables]

\* json.dump(self.cache, f, indent=2, default=str) and json.load(f): the snapshot
\* holds floats, strings, lists and dicts with string keys, which the document
\* holds as they are
json_dump(snapshot) == [json |-> snapshot]
json_load(document) == document.json

\* a file that open(..., 'w') truncated and json.dump did not finish
Truncated == [json |-> None]

\* the outcome of a call: the snapshot returned, or the exception raised; dropped
\* holds the tables of the local dict that a failing refresh had built
CacheReturned(schema) == [ok |-> TRUE, schema |-> schema, dropped |-> <<>>]
CacheRaisedAfter(tables) == [ok |-> FALSE, schema |-> None, dropped |-> tables]
CacheRaised == CacheRaisedAfter(<<>>)

\* load_cache: the document when the file exists and parses, {} otherwise
load_cache(file) ==
    IF file = None THEN None
    ELSE IF Val(file) = Truncated THEN None
    ELSE Some(json_load(Val(file)))

\* save_cache, whose except clause swallows the failure: the file after it
SaveOutcomes == {"written", "open_failed", "dump_failed"}
save_cache(file, snapshot, outcome) ==
    IF outcome = "written" THEN Some(json_dump(snapshot))
    ELSE IF outcome = "open_failed" THEN file
    ELSE Some(Truncated)

\* a validity test that never lets a snapshot expire
is_cache_valid_forever(c, time) == c # None

is_cache_valid(c, time) ==
    /\ c # None
    /\ time - Val(c).timestamp < CACHE_TTL

\* a loop that is left before its first turn
LoopDone_early(schema) == TRUE

\* the for loop of refresh_schema has gone through every table
LoopDone(schema) == schema.todo = <<>>

\* the call a thread starts: what it was called with, when, and on which cache
Calling(op, force, refreshes) ==
    [op |-> op, force |-> force, at |-> now, had |-> cache, refreshes |-> refreshes]

Ended(call, result) == Some([call |-> call, result |-> result])

\* the documents schema_cache.json can hold when the process starts
StartTables == <<<<"p","r","o","j","e","c","t">>>>
StartFiles == {None, Some(Truncated), Some(json_dump(Snapshot(0, StartTables)))}

InitCache ==
    /\ state = initial_state(<<>>, FALSE)
    /\ oracle_calls = NoCalls
    /\ store_calls = <<>>
    /\ stages = <<>>
    /\ schema_seen = None
    /\ sql_reply = None
    /\ validated_sql = None
    /\ has_to_unicode = FALSE
    /\ approval = FALSE
    /\ pc = "idle"
    /\ runs = 0
    /\ limit_call = None
    /\ cache_file \in StartFiles
    /\ cache = load_cache(cache_file)
    /\ now = 0
    /\ threads = [t \in Threads |-> Idle]
    /\ returned = None
    /\ introspections = 0
    /\ loads = 0

\* a get_schema that refreshes on every call
get_schema_refreshes_always(force, c, time) == TRUE

\* get_schema: if force_refresh or not self.is_cache_valid()
get_schema_refreshes(force, c, time) == force \/ ~is_cache_valid(c, time)

\* get_schema(force_refresh): the test of the cache, then either the start of
\* refresh_schema, whose local schema dict takes the time, or the way to
\* "return self.cache"
GetSchema ==
    \E t \in Threads, force \in BOOLEAN :
        /\ threads[t].pc = "idle"
        /\ IF get_schema_refreshes(force, cache, now)
           THEN /\ introspections < MaxIntrospections
                /\ threads' = [threads EXCEPT ![t] =
                       [pc |-> "get_all_tables",
                        call |-> Some(Calling("get_schema", force, TRUE)),
                        schema |-> Some([timestamp |-> now, tables |-> <<>>, todo |-> <<>>])]]
           ELSE threads' = [threads EXCEPT ![t] =
                       [pc |-> "return_cache",
                        call |-> Some(Calling("get_schema", force, FALSE)),
                        schema |-> None]]
        /\ UNCHANGED <<cache, cache_file, now, returned, introspections, loads>>
        /\ UNCHANGED pipeline_vars

\* return self.cache
ReturnCache ==
    \E t \in Threads :
        /\ threads[t].pc = "return_cache"
        /\ returned' = Ended(Val(threads[t].call), CacheReturned(Val(cache)))
        /\ threads' = [threads EXCEPT ![t] = Idle]
        /\ UNCHANGED <<cache, cache_file, now, introspections, loads>>
        /\ UNCHANGED pipeline_vars

\* tables = db_connection.get_all_tables(), or the exception re-raised
GetAllTables ==
    \E t \in Threads :
        /\ threads[t].pc = "get_all_tables"
        /\ introspections' = introspections + 1
        /\ \/ /\ \E tables \in DbTables :
                     threads' = [threads EXCEPT ![t].pc = "get_table_schema",
                                                ![t].schema = Some([Val(@) EXCEPT !.todo = tables])]
              /\ UNCHANGED returned
           \/ /\ threads' = [threads EXCEPT ![t] = Idle]
              /\ returned' = Ended(Val(threads[t].call), CacheRaised)
        /\ UNCHANGED <<cache, cache_file, now, loads>>
        /\ UNCHANGED pipeline_vars

\* a loop that writes each table into the cache as soon as it is introspected
GetTableSchema_in_place ==
    \E t \in Threads :
        /\ threads[t].pc = "get_table_schema"
        /\ ~LoopDone(Val(threads[t].schema))
        /\ \/ /\ threads' = [threads EXCEPT ![t].schema =
                     Some([Val(@) EXCEPT !.tables = Append(@, Head(Val(threads[t].schema).todo)),
                                         !.todo = Tail(@)])]
              /\ cache' = Some(Snapshot(Val(threads[t].schema).timestamp,
                                        Append(Val(threads[t].schema).tables,
                                               Head(Val(threads[t].schema).todo))))
              /\ UNCHANGED returned
           \/ /\ threads' = [threads EXCEPT ![t] = Idle]
              /\ returned' = Ended(Val(threads[t].call),
                                   CacheRaisedAfter(Val(threads[t].schema).tables))
              /\ UNCHANGED cache
        /\ UNCHANGED <<cache_file, now, introspections, loads>>
        /\ UNCHANGED pipeline_vars

\* one turn of the loop: columns = db_connection.get_table_schema(table), or
\* the exception re-raised
GetTableSchema ==
    \E t \in Threads :
        /\ threads[t].pc = "get_table_schema"
        /\ ~LoopDone(Val(threads[t].schema))
        /\ \/ /\ threads' = [threads EXCEPT ![t].schema =
                     Some([Val(@) EXCEPT !.tables = Append(@, Head(Val(threads[t].schema).todo)),
                                         !.todo = Tail(@)])]
              /\ UNCHANGED returned
           \/ /\ threads' = [threads EXCEPT ![t] = Idle]
              /\ returned' = Ended(Val(threads[t].call),
                                   CacheRaisedAfter(Val(threads[t].schema).tables))
        /\ UNCHANGED <<cache, cache_file, now, introspections, loads>>
        /\ UNCHANGED pipeline_vars

\* self.cache = schema; self.save_cache(); return schema
Publish ==
    \E t \in Threads, outcome \in SaveOutcomes :
        /\ threads[t].pc = "get_table_schema"
        /\ LoopDone(Val(threads[t].schema))
        /\ LET schema == Snapshot(Val(threads[t].schema).timestamp, Val(threads[t].schema).tables)
           IN /\ cache' = Some(schema)
              /\ cache_file' = save_cache(cache_file, schema, outcome)
              /\ returned' = Ended(Val(threads[t].call), CacheReturned(schema))
        /\ threads' = [threads EXCEPT ![t] = Idle]
        /\ UNCHANGED <<now, introspections, loads>>
        /\ UNCHANGED pipeline_vars

\* load_manual_schema
LoadManualSchema ==
    \E t \in Threads, outcome \in SaveOutcomes :
        /\ threads[t].pc = "idle"
        /\ loads < MaxLoads
        /\ loads' = loads + 1
        /\ LET manual == Snapshot(now, ManualTables)
           IN /\ cache' = Some(manual)
              /\ cache_file' = save_cache(cache_file, manual, outcome)
              /\ returned' = Ended(Calling("load_manual_schema", FALSE, TRUE), CacheReturned(manual))
        /\ UNCHANGED <<now, threads, introspections>>
        /\ UNCHANGED pipeline_vars

\* load_schema_from_excel: the workbook is read into a local dict, or
\* pd.ExcelFile raises
LoadSchemaFromExcel ==
    \E t \in Threads :
        /\ threads[t].pc = "idle"
        /\ loads < MaxLoads
        /\ loads' = loads + 1
        /\ \/ \E outcome \in SaveOutcomes :
                  LET schema == Snapshot(now, ExcelTables)
                  IN /\ cache' = Some(schema)
                     /\ cache_file' = save_cache(cache_file, schema, outcome)
                     /\ returned' = Ended(Calling("load_schema_from_excel", FALSE, TRUE),
                                          CacheReturned(schema))
           \/ /\ returned' = Ended(Calling("load_schema_from_excel", FALSE, TRUE), CacheRaised)
              /\ UNCHANGED <<cache, cache_file>>
        /\ UNCHANGED <<now, threads, introspections>>
        /\ UNCHANGED pipeline_vars

\* time passes
Tick ==
    /\ now < MaxTime
    /\ now' = now + 1
    /\ UNCHANGED <<cache, cache_file, threads, returned, introspections, loads>>
    /\ UNCHANGED pipeline_vars

\* the process ends and starts again: schema_cache = SchemaCache()
Restart ==
    /\ \A t \in Threads : threads[t].pc = "idle"
    /\ returned # None
    /\ Val(returned).call.op # "restart"
    /\ cache' = load_cache(cache_file)
    /\ returned' = Ended(Calling("restart", FALSE, FALSE), CacheReturned(None))
    /\ UNCHANGED <<cache_file, now, threads, introspections, loads>>
    /\ UNCHANGED pipeline_vars

NextCache ==
    \/ GetSchema
    \/ ReturnCache
    \/ GetAllTables
    \/ GetTableSchema
    \/ Publish
    \/ LoadManualSchema
    \/ LoadSchemaFromExcel
    \/ Tick
    \/ Restart

SpecCache == InitCache /\ [][NextCache]_vars

---------------------------------------------------------------------------
(* Properties of the pipeline, the grounding matcher, the synthesis stage  *)
(* and the safety validator.                                               *)

\* C1: in a run in which the grounding matcher abstained, the oracle is never
\* called for SQL synthesis and no stage after the schema stage runs on that
\* state.  The workflow's edge schema -> text2sql is unconditional, so this
\* does not hold of the code.
C1_NoSynthesisAfterAbstention ==
    Abstained =>
        /\ oracle_calls.text2sql = 0
        /\ \A i \in 1..Len(stages) : stages[i] \in {"nlu", "schema"}

\* C2: every SQL text given to the store's execute operation is the text that
\* validate_sql ended with step = validated on, on the same state, and that
\* state has is_valid true; when the oracle answers "DELETE FROM client" the
\* validator leaves is_valid false with a message that cites DELETE and the
\* store is not called.
C2_ExecuteOnlyValidated ==
    /\ \A i \in 1..Len(store_calls) :
           /\ store_calls[i] # None
           /\ validated_sql # None
           /\ store_calls[i] = validated_sql
    /\ store_calls # <<>> => state.is_valid
    /\ (sql_reply = Some(Reply(R_Delete)) /\ Ran("validator")) =>
           /\ ~state.is_valid
           /\ state.validation_message = "Query contains dangerous keyword: DELETE"
           /\ store_calls = <<>>

\* a validated text has been given to the store
C2_Witness ==
    /\ store_calls # <<>>
    /\ Ran("validator")
    /\ state.is_valid

\* C3: the store's execute operation is called on a state only after an approval
\* signal set execution_approved on it; a run started without approval ends
\* without a store call.
C3_NoExecutionBeforeApproval ==
    /\ store_calls # <<>> => (approval /\ state.execution_approved)
    /\ ~approval => (store_calls = <<>> /\ ~Ran("executor"))

\* the store has been called on an approved state
C3_Witness ==
    /\ store_calls # <<>>
    /\ approval
    /\ state.execution_approved

\* C5: at the end of a run for a question with no token overlap with any table
\* or column of the snapshot, generated_sql is null and is_valid is false.  The
\* synthesis and validation stages run after the abstention, so this does not
\* hold of the code.
C5_AbstentionLeavesNoSql ==
    (/\ pc = "done"
     /\ schema_seen # None
     /\ Val(schema_seen).ok
     /\ NoOverlap(state.user_query, SeenTables)) =>
        /\ state.generated_sql = None
        /\ ~state.is_valid

\* C7: when the text extracted from the oracle's reply is, trimmed, the sentinel,
\* the run ends with generated_sql null, the sentinel event in the message log,
\* no validation success and no execution.  The node of the workflow has no
\* sentinel handling, so this does not hold of the code.
C7_SentinelAbstains ==
    (/\ pc = "done"
     /\ sql_reply # None
     /\ Val(sql_reply).ok
     /\ str_strip(ExtractSql(Val(sql_reply).text)) = Sentinel) =>
        /\ state.generated_sql = None
        /\ InLog(SentinelMessage)
        /\ validated_sql = None
        /\ store_calls = <<>>

\* C4: for a question whose tokens share no token with any table name or column
\* name of the snapshot, the schema stage sets no_schema_found, leaves
\* relevant_tables and schema_context empty and appends the message that no
\* schema match was found.
C4_NoOverlapAbstains ==
    (Grounded /\ NoOverlap(state.user_query, SeenTables)) =>
        /\ state.no_schema_found = Some(TRUE)
        /\ state.relevant_tables = <<>>
        /\ state.schema_context = ""
        /\ state.messages # <<>>
        /\ state.messages[Len(state.messages)] = AbstainMessage

\* a question with tokens met a snapshot with tables and shared none with it
C4_Witness ==
    /\ Grounded
    /\ SeenTables # <<>>
    /\ QuestionTokens(state.user_query) # {}
    /\ NoOverlap(state.user_query, SeenTables)
    /\ Abstained

HoldsClientCity(tables) ==
    \E t \in 1..Len(tables) :
        /\ tables[t].name = <<"c","l","i","e","n","t">>
        /\ \E c \in 1..Len(tables[t].columns) : tables[t].columns[c].column_name = <<"c","i","t","y">>

ScenarioA == Grounded /\ state.user_query = Q_ClientsNewYork /\ HoldsClientCity(SeenTables)

\* C6 as stated: for "show clients in new york" and a snapshot with table client
\* and column city, the matcher selects client with score >= 2 and does not
\* abstain.
C6_ScenarioA_Selects ==
    ScenarioA =>
        /\ state.no_schema_found = Some(FALSE)
        /\ \E i \in 1..Len(state.relevant_tables) : state.relevant_tables[i] = <<"c","l","i","e","n","t">>
        /\ \E t \in 1..Len(SeenTables) :
               /\ SeenTables[t].name = <<"c","l","i","e","n","t">>
               /\ TableScore(_tokenize(state.user_query), SeenTables[t]) >= 2

\* C6: for "show clients in new york" and a snapshot with table client and
\* column city, the question's tokens are clients, new and york; none is a token
\* of client or of city, the score of client is 0 and the matcher abstains. For
\* "Show the client city" it selects client with score 2.
C6_ScenarioA_Abstains ==
    /\ ScenarioA =>
           /\ _tokenize(state.user_query) = {<<"c","l","i","e","n","t","s">>, <<"n","e","w">>, <<"y","o","r","k">>}
           /\ \A t \in 1..Len(SeenTables) :
                  SeenTables[t].name = <<"c","l","i","e","n","t">> =>
                      TableScore(_tokenize(state.user_query), SeenTables[t]) = 0
           /\ state.no_schema_found = Some(TRUE)
           /\ state.relevant_tables = <<>>
    /\ (Grounded /\ state.user_query = Q_ClientCity /\ SeenTables = ClientCity) =>
           /\ state.no_schema_found = Some(FALSE)
           /\ state.relevant_tables = <<<<"c","l","i","e","n","t">>>>
           /\ TableScore(_tokenize(state.user_query), SeenTables[1]) = 2

\* the schema stage has answered the question of scenario A
C6_Witness == ScenarioA /\ SeenTables = ClientCity /\ state.step = "schema_abstain"

\* C8: a reply whose extracted, trimmed text is not the sentinel is not treated
\* as abstention by generate_sql(state).  The function tests the text with
\* startswith("NO_SCHEMA_MATCH"), so this does not hold of the code.
C8_SentinelIsExact ==
    (/\ pc = "done"
     /\ sql_reply # None
     /\ Val(sql_reply).ok
     /\ str_strip(ExtractSql(Val(sql_reply).text)) # Sentinel) =>
        /\ ~InLog(SentinelMessage)
        /\ state.generated_sql # None

\* the keywords as the specification lists them
C9_Keywords == {<<"D","R","O","P">>, <<"D","E","L","E","T","E">>, <<"T","R","U","N","C","A","T","E">>, <<"A","L","T","E","R">>, <<"C","R","E","A","T","E">>, <<"I","N","S","E","R","T">>,
                <<"U","P","D","A","T","E">>, <<"E","X","E","C">>, <<"E","X","E","C","U","T","E">>, <<"G","R","A","N","T">>, <<"R","E","V","O","K","E">>}

\* text holds word in some letter case, with no word character on either side
ContainsWord(word, text) ==
    \E i \in 1..Len(text), j \in 1..Len(text) :
        /\ i <= j
        /\ str_lower(SubSeq(text, i, j)) = str_lower(word)
        /\ (i = 1 \/ ~IsWordChar(text[i - 1]))
        /\ (j = Len(text) \/ ~IsWordChar(text[j + 1]))

Validated == pc = "done" /\ Ran("validator") /\ state.generated_sql # None
DropTexts == {V_DropSpaced, V_DropUpper, V_DropMixed}

\* C9: a text that holds one of the keywords as a whole word, in any letter case
\* and with any whitespace around it, is rejected with a message that names a
\* keyword the text holds; the three DROP texts are rejected citing DROP.
C9_DangerousKeywordRejected ==
    /\ (Validated /\ \E kw \in C9_Keywords : ContainsWord(kw, Val(state.generated_sql))) =>
           /\ ~state.is_valid
           /\ state.step = "validation_failed"
           /\ \E kw \in C9_Keywords :
                  /\ ContainsWord(kw, Val(state.generated_sql))
                  /\ state.validation_message = "Query contains dangerous keyword: " \o Str(kw)
    /\ (Validated /\ Val(state.generated_sql) \in DropTexts) =>
           state.validation_message = "Query contains dangerous keyword: DROP"

\* the validator has judged the text "DrOp Table X"
C9_Witness == Validated /\ Val(state.generated_sql) = V_DropMixed /\ ~state.is_valid

\* the text without one trailing ';'
DropOneSemicolon(text) ==
    LET s == str_strip(text)
    IN IF s # <<>> /\ s[Len(s)] = ";" THEN SubSeq(s, 1, Len(s) - 1) ELSE s

\* C10: a text in which a ';' remains after removing exactly one trailing ';' is
\* rejected.  is_safe_query removes every trailing ';' (rstrip), so a SELECT that
\* ends in ";;" is accepted and this does not hold of the code.
C10_MultiStatementRejected ==
    (Validated /\ str_in(<<";">>, DropOneSemicolon(Val(state.generated_sql)))) =>
        ~state.is_valid

\* C11 as stated: validate_sql on "SELECT 1;" ends with is_valid true and step
\* validated.
C11_OneTerminatorAccepted ==
    (Validated /\ Val(state.generated_sql) = V_OneSemicolon) =>
        /\ state.is_valid
        /\ state.step = "validated"

\* C11: "SELECT 1;" passes the safety rules (its single trailing ';' is no second
\* statement) but has 9 characters, fewer than the 10 the validator asks for, and
\* validate_sql ends with is_valid false, step validation_failed and the message
\* "Query is too short or empty"; "SELECT 10;", one statement with one trailing
\* terminator and 10 characters, ends with is_valid true and step validated.
C11_OneTerminatorTooShort ==
    /\ (Validated /\ Val(state.generated_sql) = V_OneSemicolon) =>
           /\ is_safe_query(V_OneSemicolon).safe
           /\ Len(V_OneSemicolon) = 9
           /\ ~state.is_valid
           /\ state.step = "validation_failed"
           /\ state.validation_message = "Query is too short or empty"
    /\ (Validated /\ Val(state.generated_sql) = V_OneSemicolonTen) =>
           /\ state.is_valid
           /\ state.step = "validated"

\* the validator has judged "SELECT 1;"
C11_Witness ==
    /\ Validated
    /\ Val(state.generated_sql) = V_OneSemicolon
    /\ state.step = "validation_failed"

\* the validator has run on the state; the candidate may be null
ValidatorRan == pc = "done" /\ Ran("validator")

\* C12: a candidate that is null, empty or shorter than 10 characters is
\* rejected: validate_sql ends with is_valid false and step validation_failed and
\* leaves requires_human_approval unset.
C12_ShortCandidateRejected ==
    (ValidatorRan /\ (state.generated_sql = None \/ Len(Val(state.generated_sql)) < 10)) =>
        /\ ~state.is_valid
        /\ state.step = "validation_failed"
        /\ ~state.requires_human_approval

\* a SELECT of fewer than 10 characters has reached the length rule
C12_Witness ==
    /\ ValidatorRan
    /\ state.generated_sql # None
    /\ Len(Val(state.generated_sql)) < 10
    /\ state.validation_message = "Query is too short or empty"

\* C13: in every state of the pipeline, requires_human_approval true implies
\* is_valid true.
C13_ApprovalOnlyWhenValid == state.requires_human_approval => state.is_valid

\* validation has succeeded and asked for approval
C13_Witness ==
    /\ Ran("validator")
    /\ state.step = "validated"
    /\ state.requires_human_approval


\* validation succeeded on the stored state and no approval decision was given
AwaitingDecision ==
    /\ pc = "done"
    /\ Ran("validator")
    /\ state.is_valid
    /\ ~state.execution_approved
    /\ ~Ran("executor")

\* an approval, a rejection, or the caller starting a new question
DecisionStep == approval' \/ pc' = "idle" \/ runs' # runs

\* C14: after validation succeeded and while no approval decision has been given,
\* the state has step = awaiting_approval, and no step other than a decision
\* changes it.  The workflow ends after the validator when execution_approved is
\* false; execute_sql, which alone sets awaiting_approval, is entered only with
\* execution_approved true, so the step stays "validated" and the first part does
\* not hold of the code.
C14_ParkedAwaitingApproval ==
    /\ [](AwaitingDecision => state.step = "awaiting_approval")
    /\ [][(AwaitingDecision /\ ~DecisionStep) => state' = state]_vars

\* the step runs the executor: as the workflow's node, or in the Approve handler
ExecutorStep == Len(stages') > Len(stages) /\ stages'[Len(stages) + 1] = "executor"

\* the formatter is entered after the execution of this step
EntersFormatter ==
    \/ pc' = "formatter"
    \/ (Len(stages') = Len(stages) + 2 /\ stages'[Len(stages) + 2] = "formatter")

\* the step runs the formatter as the workflow's node
FormatterStep ==
    /\ Len(stages') = Len(stages) + 1
    /\ stages'[Len(stages')] = "formatter"

\* C15: the formatter runs after an execution if and only if the execution left
\* rows that are not null, the empty list included; an execution that fails
\* leaves query_results null and step = execution_failed, and the formatter is
\* not entered.
C15_FormatIffRows ==
    /\ [][ExecutorStep =>
             /\ EntersFormatter <=> state'.query_results # None
             /\ state'.execution_error # None =>
                    /\ state'.query_results = None
                    /\ state'.step = "execution_failed"
                    /\ ~EntersFormatter
                    /\ pc' = "done"]_vars
    /\ [][FormatterStep =>
             /\ state.query_results # None
             /\ stages[Len(stages)] = "executor"]_vars

\* the formatter ran on an empty list of rows
C15_Witness ==
    /\ stages # <<>>
    /\ stages[Len(stages)] = "formatter"
    /\ state.query_results = Some(<<>>)
    /\ state.formatted_response = Some("No results found for your query.")

\* the stored state has reached execution_failed, or the formatter has finished
\* on it (step = complete, the specification's "formatted")
Terminal == pc = "done" /\ state.step \in {"execution_failed", "complete"}

\* the caller starts a new question: the state is replaced by a fresh one
NewQuestion == runs' # runs

\* C16: once the state has reached execution_failed or formatted, no stage runs
\* on it again and its step does not change.  app.py keeps offering "Approve &
\* Execute" for a stored state with is_valid and requires_human_approval, which
\* an execution leaves set, so the executor runs again on a terminal state and
\* this does not hold of the code.
C16_TerminalStaysTerminal ==
    [][(Terminal /\ ~NewQuestion) => (stages' = stages /\ state'.step = state.step)]_vars

\* the oracle failed in the intent stage, and in the synthesis stage, of this run
NluOracleFailed ==
    /\ Ran("nlu")
    /\ \E f \in OracleFailures : state.error = Some("Intent analysis failed: " \o f.err)
SynthesisOracleFailed == sql_reply # None /\ ~Val(sql_reply).ok

\* C17: when the oracle call of the intent stage or of the synthesis stage fails,
\* the state records it (error set, step = error) and the run halts at that
\* stage: no later stage has run and step is still error.  The workflow's edges
\* nlu -> schema -> text2sql -> validator are unconditional, so later stages run
\* and overwrite step, and this does not hold of the code.
C17_OracleFailureHalts ==
    /\ NluOracleFailed =>
           /\ state.step = "error"
           /\ stages = <<"nlu">>
    /\ SynthesisOracleFailed =>
           /\ state.error = Some("SQL generation failed: " \o Val(sql_reply).err)
           /\ state.step = "error"
           /\ stages[Len(stages)] = "text2sql"

\* the failures a collaborator can answer a stage with
SchemaFailures == {got \in SchemaOutcomes : ~got.ok}
StoreFailures == {outcome \in StoreOutcomes : ~outcome.ok}
FormatFailures == {reply \in FormatReplies : ~reply.ok}

\* the state the executor is about to run on: in the workflow, or in the Approve
\* handler of app.py
ExecutorInputs ==
    IF pc = "executor" THEN {state}
    ELSE IF ApprovalOffered THEN {[state EXCEPT !.execution_approved = TRUE]}
    ELSE {}

\* the states the formatter is about to call the oracle on
FormatterInputs ==
    {s \in (IF pc = "formatter" THEN {state} ELSE {})
                \cup {execute_sql(e, outcome) : e \in ExecutorInputs, outcome \in StoreOutcomes} :
         format_results_calls_oracle(s)}

\* a stage returned a pipeline state: a record with the fields of the state
IsState(s) == DOMAIN s = DOMAIN initial_state(<<>>, FALSE)

\* C18: whatever failure the oracle, the schema store or the relational store
\* answers a stage with, the stage returns a pipeline state that records the
\* failure in error, validation_message, execution_error or formatted_response;
\* the validator, which has no collaborator, records the failure of its own
\* check on a missing text in validation_message.
C18_FailuresAreRecorded ==
    /\ pc = "nlu" =>
           \A f \in OracleFailures :
               LET r == analyze_intent(state, f)
               IN IsState(r) /\ r.error = Some("Intent analysis failed: " \o f.err) /\ r.step = "error"
    /\ pc = "schema" =>
           \A f \in SchemaFailures :
               LET r == get_relevant_schema(state, f)
               IN IsState(r) /\ r.error = Some("Schema retrieval failed: " \o f.err) /\ r.step = "error"
    /\ pc = "text2sql" =>
           \A f \in OracleFailures :
               LET r == Text2SQLAgent_generate_sql(state, f, has_to_unicode)
               IN IsState(r) /\ r.error = Some("SQL generation failed: " \o f.err) /\ r.step = "error"
    /\ (pc = "validator" /\ state.generated_sql = None) =>
           LET r == validate_sql(state)
           IN IsState(r) /\ ~r.is_valid /\ r.validation_message # ""
                  /\ r.step = "validation_failed"
    /\ \A e \in ExecutorInputs, f \in StoreFailures :
           LET r == execute_sql(e, f)
           IN IsState(r) /\ r.execution_error = Some(f.err) /\ r.query_results = None
                  /\ r.step = "execution_failed"
    /\ \A s \in FormatterInputs, f \in FormatFailures :
           LET r == format_results(s, f)
           IN IsState(r)
                  /\ r.formatted_response = Some("Results retrieved but formatting failed: " \o f.err)
    /\ (pc = "text2sql" /\ schema_seen # None /\ ~Val(schema_seen).ok) =>
           state.error = Some("Schema retrieval failed: " \o Val(schema_seen).err)
    /\ (pc = "validator" /\ sql_reply # None /\ ~Val(sql_reply).ok) =>
           state.error = Some("SQL generation failed: " \o Val(sql_reply).err)
    /\ IsState(state)

\* the store raised in the Approve handler and the state holds what it raised
C18_Witness ==
    /\ pc = "done"
    /\ stages # <<>>
    /\ stages[Len(stages)] = "executor"
    /\ state.step = "execution_failed"
    /\ state.execution_error = Some("Timeout")

\* ensure_top_limit has been applied to a text and to what it returned
LimitedTwice == pc = "done" /\ limit_call # None /\ Val(limit_call).twice # None

\* C19: applying ensure_top_limit to what it returned gives the same as applying
\* it once, for every text and limit; where the first call returned a text, the
\* second returns that text.
C19_LimitIdempotent ==
    LimitedTwice =>
        /\ Val(limit_call).twice = Val(limit_call).once
        /\ Val(Val(limit_call).once).ok =>
               /\ Val(Val(limit_call).twice).ok
               /\ Val(Val(limit_call).twice).text = Val(Val(limit_call).once).text

\* the first call inserted TOP into a SELECT and the second call returned
C19_Witness ==
    /\ LimitedTwice
    /\ Val(limit_call).sql = L_Select
    /\ Val(Val(limit_call).once) = Returned(<<"S","E","L","E","C","T"," ","T","O","P"," ","1"," ","n","a","m","e"," ","F","R","O","M"," ","c","l","i","e","n","t">>)
    /\ Val(Val(limit_call).twice).ok

\* text holds word, in any letter case, between two whitespace characters
HasBoundedWord(word, text) ==
    \E i \in 2..Len(text) :
        /\ i + Len(word) <= Len(text)
        /\ str_upper(SubSeq(text, i, i + Len(word) - 1)) = word
        /\ text[i - 1] \in Whitespace
        /\ text[i + Len(word)] \in Whitespace

HasLimitWord(text) ==
    \E word \in {<<"T","O","P">>, <<"O","F","F","S","E","T">>, <<"F","E","T","C","H">>} : HasBoundedWord(word, text)

\* the position of the first character that is no whitespace, 0 when there is none
FirstInk(text) ==
    IF \E i \in 1..Len(text) : text[i] \notin Whitespace
    THEN CHOOSE i \in 1..Len(text) :
             text[i] \notin Whitespace /\ \A j \in 1..(i - 1) : text[j] \in Whitespace
    ELSE 0

\* the text starts, after whitespace, with the keyword SELECT in any letter case
IsSelectText(text) ==
    LET k == FirstInk(text)
    IN /\ k > 0
       /\ k + 5 <= Len(text)
       /\ str_upper(SubSeq(text, k, k + 5)) = <<"S","E","L","E","C","T">>
       /\ (k + 6 > Len(text) \/ ~IsWordChar(text[k + 6]))

\* the text with " TOP n" put right after the leading SELECT
WithTopAfterSelect(text, n) ==
    LET k == FirstInk(text)
    IN SubSeq(text, 1, k + 5) \o <<" ","T","O","P"," ">> \o str_int(n) \o SubSeq(text, k + 6, Len(text))

LimitedOnce == limit_call # None /\ Val(limit_call).once # None /\ Val(Val(limit_call).once).ok

\* C20: for a SELECT text that holds none of the words TOP, OFFSET, FETCH between
\* whitespace, in any letter case, ensure_top_limit returns the text with " TOP n"
\* inserted right after the leading SELECT and every other character in place;
\* for any other text it returns the text unchanged.  ensure_top_limit works on
\* the first statement of the text only and looks for the words between two
\* spaces only, so this does not hold of the code.
C20_TopInsertedAfterSelect ==
    LimitedOnce =>
        LET call == Val(limit_call)
        IN Val(call.once).text =
               IF IsSelectText(call.sql) /\ ~HasLimitWord(call.sql)
               THEN WithTopAfterSelect(call.sql, call.limit)
               ELSE call.sql

\* the synthesis stage has just run on a reply of the oracle
Synthesized == pc = "validator" /\ sql_reply # None /\ Val(sql_reply).ok

\* C21: when the oracle returns the fenced block holding "SELECT name FROM client",
\* the extracted text is exactly that and the SQL candidate of the state is
\* exactly "SELECT TOP 100 name FROM client"; a reply without a fence is used
\* trimmed.  Between extraction and limit enforcement the stage calls
\* sanitize_sql, whose sqlparse.format(reindent=True) puts FROM on a new line,
\* so the candidate is not that text and this does not hold of the code.
C21_ScenarioD ==
    /\ (Synthesized /\ Val(sql_reply).text = R_Fenced) =>
           /\ ExtractSql(R_Fenced) = <<"S","E","L","E","C","T"," ","n","a","m","e"," ","F","R","O","M"," ","c","l","i","e","n","t">>
           /\ state.generated_sql = Some(<<"S","E","L","E","C","T"," ","T","O","P"," ","1","0","0"," ","n","a","m","e"," ","F","R","O","M"," ","c","l","i","e","n","t">>)
    /\ (Synthesized /\ ~str_in(Fence, Val(sql_reply).text)) =>
           ExtractSql(Val(sql_reply).text) = str_strip(Val(sql_reply).text)

\* C22: after a run of the schema stage that did not fail, no_schema_found is
\* true if and only if relevant_tables is empty, and relevant_tables holds at
\* most 5 tables.
C22_AbstainedIffEmpty ==
    Grounded =>
        /\ state.no_schema_found \in {Some(TRUE), Some(FALSE)}
        /\ state.no_schema_found = Some(TRUE) <=> state.relevant_tables = <<>>
        /\ Len(state.relevant_tables) <= 5

\* six tables matched the question and five were kept
C22_Witness ==
    /\ Grounded
    /\ Len(SeenTables) = 6
    /\ \A t \in 1..6 : TableScore(_tokenize(state.user_query), SeenTables[t]) > 0
    /\ Len(state.relevant_tables) = 5
    /\ state.no_schema_found = Some(FALSE)

\* the columns of a table whose tokens meet the question's, by position
MatchedColumns(question, table) ==
    {c \in 1..Len(table.columns) :
        QuestionTokens(question) \cap QuestionTokens(table.columns[c].column_name) # {}}

\* the score of a table as the specification words it
Score(question, table) ==
    Cardinality(QuestionTokens(question) \cap QuestionTokens(table.name))
        + Cardinality(MatchedColumns(question, table))

\* the place of table i of the snapshot among the tables of score > 0: behind
\* every table of higher score and every earlier table of equal score
Place(question, tables, i) ==
    1 + Cardinality({j \in 1..Len(tables) :
                        \/ Score(question, tables[j]) > Score(question, tables[i])
                        \/ (Score(question, tables[j]) = Score(question, tables[i]) /\ j < i)})

Positive(question, tables) == {i \in 1..Len(tables) : Score(question, tables[i]) > 0}

\* the positions in the snapshot of the tables to select, in order
Ranking(question, tables) ==
    LET n == IF Cardinality(Positive(question, tables)) < 5
             THEN Cardinality(Positive(question, tables)) ELSE 5
    IN [k \in 1..n |-> CHOOSE i \in Positive(question, tables) : Place(question, tables, i) = k]

\* C23: the schema stage selects exactly the tables of score > 0, by score
\* descending, tables of equal score in the order of the snapshot, cut to the
\* first 5.
C23_SelectsByScore ==
    Grounded =>
        LET ranking == Ranking(state.user_query, SeenTables)
        IN state.relevant_tables = [k \in 1..Len(ranking) |-> SeenTables[ranking[k]].name]

\* the selection reordered the snapshot, kept the order of equal scores and cut
C23_Witness ==
    /\ Grounded
    /\ SeenTables = SixTables
    /\ state.relevant_tables = <<<<"c","l","i","e","n","t">>, <<"t","e","a","m">>, <<"c","o","n","t","a","c","t","s">>, <<"p","r","o","j","e","c","t">>, <<"i","n","v","o","i","c","e">>>>

\* the lines of the schema context for one selected table
RECURSIVE ExpectedColumnLines(_, _)
ExpectedColumnLines(question, cols) ==
    IF cols = <<>> THEN <<>>
    ELSE (IF QuestionTokens(question) \cap QuestionTokens(Head(cols).column_name) # {}
          THEN <<ColumnLine(NormalizeColumn(Head(cols)))>> ELSE <<>>)
         \o ExpectedColumnLines(question, Tail(cols))

ExpectedTableLines(question, table) ==
    <<"### Table: " \o Str(table.name)>>
        \o (IF MatchedColumns(question, table) = {}
            THEN <<"Columns: (no confidently matched columns)">>
            ELSE <<"Columns:">> \o ExpectedColumnLines(question, table.columns))

RECURSIVE ExpectedContext(_, _, _)
ExpectedContext(question, tables, ranking) ==
    IF ranking = <<>> THEN <<>>
    ELSE ExpectedTableLines(question, tables[Head(ranking)])
             \o ExpectedContext(question, tables, Tail(ranking))

\* C24: the schema context lists, under each selected table, exactly the columns
\* of that table in the snapshot whose tokens meet the question's, and for a
\* selected table without such a column the marker "(no confidently matched
\* columns)" and no column line.
C24_OnlyMatchedColumns ==
    (Grounded /\ state.no_schema_found = Some(FALSE)) =>
        state.schema_context =
            str_join("\n", ExpectedContext(state.user_query, SeenTables,
                                           Ranking(state.user_query, SeenTables)))

\* a table selected by its name alone is listed with the marker, next to a table
\* listed with a matched column
C24_Witness ==
    /\ Grounded
    /\ SeenTables = SixTables
    /\ \E i \in 1..Len(state.relevant_tables) :
           LET t == CHOOSE t \in 1..6 : SeenTables[t].name = state.relevant_tables[i]
           IN MatchedColumns(state.user_query, SeenTables[t]) = {}
    /\ \E i \in 1..Len(state.relevant_tables) :
           LET t == CHOOSE t \in 1..6 : SeenTables[t].name = state.relevant_tables[i]
           IN MatchedColumns(state.user_query, SeenTables[t]) # {}

\* the calls of get_schema without force_refresh on a cache that holds a
\* snapshot: those under way and the one that ended last
PlainGets ==
    {c \in {Val(threads[t].call) : t \in {u \in Threads : threads[u].call # None}}
            \cup (IF returned = None THEN {} ELSE {Val(returned).call}) :
        c.op = "get_schema" /\ ~c.force /\ c.had # None}

Age(c) == c.at - Val(c.had).timestamp

\* C25: a snapshot is expired exactly when now - captured_at > ttl: a get without
\* force_refresh refreshes if and only if the age of the snapshot is above the
\* TTL.  is_cache_valid tests cache_age < CACHE_TTL, so a snapshot whose age
\* equals the TTL is refreshed and this does not hold of the code.
C25_ExpiredExactlyAboveTtl ==
    \A c \in PlainGets : c.refreshes <=> Age(c) > CACHE_TTL

\* the call of get_schema that ended last
GetEnded == returned # None /\ Val(returned).call.op = "get_schema"

\* C26: a get whose refresh fails raises to its caller only when the cache held
\* no snapshot; with an earlier snapshot the caller is served that snapshot.
\* refresh_schema re-raises and get_schema returns its result, so the failure
\* reaches the caller whatever the cache holds, and this does not hold of the
\* code.
C26_ServesEarlierSnapshot ==
    (GetEnded /\ Val(returned).call.refreshes /\ Val(returned).call.had # None) =>
        /\ Val(returned).result.ok
        /\ \/ Val(returned).result.schema = Val(Val(returned).call.had)
           \/ Val(returned).result.schema.timestamp >= Val(returned).call.at

\* the table lists of the snapshots that are whole
WholeTables == DbTables \cup {ManualTables, ExcelTables, StartTables}

\* C27: with readers and refreshes running concurrently, the snapshot in the
\* cache and every snapshot a call returns holds a whole list of tables: the one
\* from before the refresh or the new one, never the part of the tables
\* introspected so far; a reader about to return the cache finds a snapshot in
\* it.
C27_NoPartialSnapshot ==
    /\ cache # None => Val(cache).tables \in WholeTables
    /\ (returned # None /\ Val(returned).result.ok /\ Val(returned).result.schema # None) =>
           Val(returned).result.schema.tables \in WholeTables
    /\ \A t \in Threads : threads[t].pc = "return_cache" => cache # None

\* a reader was served the snapshot from before while a refresh had introspected
\* part of the tables
C27_Witness ==
    /\ GetEnded
    /\ ~Val(returned).call.refreshes
    /\ Val(returned).result.schema = Val(Val(returned).call.had)
    /\ \E t \in Threads :
           /\ threads[t].pc = "get_table_schema"
           /\ Val(threads[t].schema).tables # <<>>
           /\ Val(threads[t].schema).todo # <<>>
           /\ Val(threads[t].call).at <= Val(returned).call.at

\* a refresh of the cache returns in this step: from the database, the
\* spreadsheet or the manual definition
RefreshReturns ==
    /\ returned' # returned
    /\ returned' # None
    /\ Val(returned').call.refreshes
    /\ Val(returned').result.ok

\* C28: when a refresh returns, the persisted document equals the snapshot in
\* memory and a SchemaCache constructed afterwards loads that snapshot.
\* save_cache swallows the failure of its write, so a refresh returns with the
\* file missing, stale or truncated, and this does not hold of the code.
C28_PersistedOnEveryRefresh ==
    [][RefreshReturns =>
           /\ cache_file' = Some(json_dump(Val(cache')))
           /\ load_cache(cache_file') = cache']_vars

\* a step of a get_schema call that was not asked to refresh and found the
\* cache valid
PlainGetStep(t) ==
    \/ /\ threads[t].pc = "idle"
       /\ threads'[t].pc = "return_cache"
       /\ ~Val(threads'[t].call).force
    \/ /\ threads[t].pc = "return_cache"
       /\ threads'[t].pc = "idle"
       /\ ~Val(threads[t].call).force

---------------------------------------------------------------------------
(* the presentation stage                                                  *)

\* the states the formatter is about to run on: in the workflow, or after the
\* execution in the Approve handler of app.py
FormatterEntries ==
    {s \in (IF pc = "formatter" THEN {state} ELSE {})
                \cup {execute_sql(e, outcome) : e \in ExecutorInputs, outcome \in StoreOutcomes} :
         should_format(s) = "formatter"}

\* the step runs the formatter: as the workflow's node, or in the Approve
\* handler
RanFormatter ==
    /\ Len(stages') > Len(stages)
    /\ stages'[Len(stages')] = "formatter"

\* C30: when the oracle fails during format_results the stage still completes:
\* step = complete, the failure is in formatted_response only, error is left as
\* it was, step is not error and query_results is unchanged; on an empty list
\* of rows the stage completes with the fixed message and the oracle is not
\* called.
C30_FormatterBestEffort ==
    /\ [](\A s \in FormatterEntries :
             /\ format_results_calls_oracle(s) =>
                    \A f \in FormatFailures :
                        LET r == format_results(s, f)
                        IN /\ r.step = "complete"
                           /\ r.step # "error"
                           /\ r.error = s.error
                           /\ r.query_results = s.query_results
                           /\ r.execution_error = s.execution_error
                           /\ r.formatted_response =
                                  Some("Results retrieved but formatting failed: " \o f.err)
             /\ Val(s.query_results) = <<>> =>
                    /\ ~format_results_calls_oracle(s)
                    /\ \A reply \in FormatReplies :
                           LET r == format_results(s, reply)
                           IN /\ r.step = "complete"
                              /\ r.error = s.error
                              /\ r.query_results = s.query_results
                              /\ r.formatted_response = Some("No results found for your query."))
    /\ [][RanFormatter =>
             /\ state'.step = "complete"
             /\ state'.error = state.error
             /\ state'.formatted_response # None
             /\ state'.query_results = Some(<<>>) => oracle_calls' = oracle_calls
             /\ oracle_calls'.formatter <= oracle_calls.formatter + 1]_vars

\* the formatter ran on rows, the oracle failed, and the run is complete with
\* the rows kept
C30_Witness ==
    /\ stages # <<>>
    /\ stages[Len(stages)] = "formatter"
    /\ state.step = "complete"
    /\ state.error = None
    /\ state.query_results # None
    /\ Val(state.query_results) # <<>>
    /\ state.formatted_response = Some("Results retrieved but formatting failed: RateLimited")
    /\ oracle_calls.formatter > 0

---------------------------------------------------------------------------
(* the order of the safety rules                                           *)

\* the rules a text violates, numbered as the validator tests them: 1 a
\* dangerous keyword as a whole word, 2 a ';' left after the trailing ones are
\* removed, 3 no SELECT at the start of the trimmed text, 4 fewer than 10
\* characters
ViolatedRules(text) ==
    (IF \E kw \in C9_Keywords : ContainsWord(kw, text) THEN {1} ELSE {})
        \cup (IF \E i \in 1..Len(str_rstrip(str_strip(text), {";"})) :
                     str_rstrip(str_strip(text), {";"})[i] = ";" THEN {2} ELSE {})
        \cup (IF str_startswith(str_strip(str_upper(text)), <<"S","E","L","E","C","T">>) THEN {} ELSE {3})
        \cup (IF Len(text) < 10 THEN {4} ELSE {})

FirstViolated(text) == CHOOSE r \in ViolatedRules(text) : \A q \in ViolatedRules(text) : r <= q

\* the messages with which a rule rejects a text
RuleMessages(r, text) ==
    IF r = 1 THEN {"Query contains dangerous keyword: " \o Str(kw) :
                       kw \in {w \in C9_Keywords : ContainsWord(w, text)}}
    ELSE IF r = 2 THEN {"Multiple SQL statements not allowed"}
    ELSE IF r = 3 THEN {"Only SELECT queries are allowed"}
    ELSE {"Query is too short or empty"}

HoldsInside(word, text) ==
    \E i \in 1..Len(text), j \in 1..Len(text) :
        i <= j /\ str_lower(SubSeq(text, i, j)) = str_lower(word)

\* a dangerous keyword occurs in the text, and never as a whole word
OnlyInsideIdentifiers(text) ==
    /\ \E kw \in C9_Keywords : HoldsInside(kw, text)
    /\ \A kw \in C9_Keywords : ~ContainsWord(kw, text)

KeywordMessages == {"Query contains dangerous keyword: " \o Str(kw) : kw \in C9_Keywords}

\* C32: the keyword rule matches whole words only: a text in which the dangerous
\* keywords occur only inside longer runs of letters, digits and underscores is
\* not rejected with a keyword message, and the SELECT of the columns
\* created_at and updated_at is accepted.
C32_WholeWordsOnly ==
    /\ (Validated /\ OnlyInsideIdentifiers(Val(state.generated_sql))) =>
           state.validation_message \notin KeywordMessages
    /\ (Validated /\ Val(state.generated_sql) = V_Timestamps) =>
           /\ state.is_valid
           /\ state.step = "validated"

\* the validator has accepted the SELECT of created_at and updated_at
C32_Witness ==
    /\ Validated
    /\ Val(state.generated_sql) = V_Timestamps
    /\ OnlyInsideIdentifiers(V_Timestamps)
    /\ state.is_valid

---------------------------------------------------------------------------
(* the approval                                                            *)

\* the step is the Approve handler of app.py: it starts from a stored state
\* whose run has ended and adds stages to it
ApprovalStep ==
    /\ pc = "done"
    /\ pc' = "done"
    /\ Len(stages') > Len(stages)

\* the stages the step has added
AddedStages == SubSeq(stages', Len(stages) + 1, Len(stages'))

\* the fields that intent analysis, grounding, synthesis and validation write
UpstreamFields(st) ==
    <<st.user_query, st.intent, st.entities, st.relevant_tables, st.schema_context,
      st.generated_sql, st.is_valid, st.validation_message, st.safety_check,
      st.requires_human_approval, st.error>>

\* C33: on approval only the executor runs, and then the formatter when the
\* rows are not null, on the stored state: the upstream stages are not run
\* again and call no oracle, what they wrote is unchanged, generated_sql
\* included, and the text passed to the store is the text of the stored state,
\* which is the text the validator accepted.
C33_ApprovalResumes ==
    [][ApprovalStep =>
           /\ SubSeq(stages', 1, Len(stages)) = stages
           /\ AddedStages = IF state'.query_results # None
                            THEN <<"executor", "formatter">> ELSE <<"executor">>
           /\ oracle_calls'.nlu = oracle_calls.nlu
           /\ oracle_calls'.text2sql = oracle_calls.text2sql
           /\ schema_seen' = schema_seen
           /\ UpstreamFields(state') = UpstreamFields(state)
           /\ state'.execution_approved
           /\ store_calls' = Append(store_calls, state.generated_sql)
           /\ state.generated_sql = validated_sql
           /\ validated_sql' = validated_sql
           /\ validated_sql # None]_vars

\* an approval has executed the stored text and formatted its rows
C33_Witness ==
    /\ approval
    /\ pc = "done"
    /\ Len(stages) >= 3
    /\ SubSeq(stages, Len(stages) - 2, Len(stages)) = <<"validator", "executor", "formatter">>
    /\ store_calls = <<validated_sql>>
    /\ state.generated_sql = validated_sql
    /\ state.step = "complete"

---------------------------------------------------------------------------
(* the end of a run                                                        *)

\* a run invoked with execution_approved false has ended and no approval has
\* been given since
UnapprovedRunEnded == pc = "done" /\ ~approval

\* the step runs the validator as the workflow's node
ValidatorStep == stages' = Append(stages, "validator")

\* C34: a run of the workflow invoked with execution_approved false runs the
\* four stages nlu, schema, text2sql, validator and ends after the validator
\* with step validated or validation_failed, whatever step the stage before
\* had left (error, schema_abstain, sql_generated).
C34_EndsAfterValidator ==
    /\ [](UnapprovedRunEnded =>
             /\ stages = <<"nlu", "schema", "text2sql", "validator">>
             /\ state.step \in {"validated", "validation_failed"}
             /\ ~state.execution_approved)
    /\ [][ValidatorStep =>
             /\ state'.step \in {"validated", "validation_failed"}
             /\ ~state.execution_approved => pc' = "done"]_vars
    /\ [][(pc = "text2sql" /\ pc' # pc) => pc' = "validator"]_vars

\* a run in which the synthesis stage had left step = error ended after the
\* validator with step = validation_failed
C34_Witness ==
    /\ UnapprovedRunEnded
    /\ state.error # None
    /\ state.generated_sql = None
    /\ state.step = "validation_failed"
    /\ stages = <<"nlu", "schema", "text2sql", "validator">>

---------------------------------------------------------------------------
(* the executor                                                            *)

\* the step ends with the executor: the run of the step did not go on to the
\* formatter
EndsWithExecutor == ExecutorStep /\ stages'[Len(stages')] = "executor"

\* the states of the pipeline on which execution has not been approved
Unapproved == IF state.execution_approved THEN {} ELSE {state}

\* C35: after an approved run of the executor exactly one of query_results and
\* execution_error is not null: rows with step = executed and no error on
\* success, an error with step = execution_failed and no rows on failure; the
\* store is called once with the text of the state.  Called on a state that is
\* not approved, the executor changes step to awaiting_approval and nothing
\* else, and does not call the store.
C35_RowsXorError ==
    /\ [][ExecutorStep =>
             /\ (state'.query_results # None) # (state'.execution_error # None)
             /\ state'.execution_approved
             /\ Len(store_calls') = Len(store_calls) + 1
             /\ state'.execution_error # None =>
                    /\ state'.step = "execution_failed"
                    /\ state'.query_results = None]_vars
    /\ [][EndsWithExecutor =>
             /\ state'.step \in {"executed", "execution_failed"}
             /\ state'.step = "executed" <=> state'.query_results # None]_vars
    /\ [](\A e \in ExecutorInputs, outcome \in StoreOutcomes :
             LET r == execute_sql(e, outcome)
             IN /\ execute_sql_calls_store(e)
                /\ outcome.ok =>
                       /\ r.step = "executed"
                       /\ r.query_results = Some(outcome.rows)
                       /\ r.execution_error = None
                /\ ~outcome.ok =>
                       /\ r.step = "execution_failed"
                       /\ r.query_results = None
                       /\ r.execution_error # None)
    /\ [](\A s \in Unapproved, outcome \in StoreOutcomes :
             /\ execute_sql(s, outcome) = [s EXCEPT !.step = "awaiting_approval"]
             /\ ~execute_sql_calls_store(s))

\* an approved execution failed on a state that held the rows of an earlier
\* execution: the rows are gone and the error is recorded
C35_Witness ==
    /\ Len(store_calls) >= 2
    /\ stages[Len(stages)] = "executor"
    /\ state.step = "execution_failed"
    /\ state.query_results = None
    /\ state.execution_error = Some("Timeout")

---------------------------------------------------------------------------
(* a refresh that fails                                                    *)

\* a refresh ends in this step with its exception
RefreshFails ==
    /\ returned' # returned
    /\ returned' # None
    /\ Val(returned').call.refreshes
    /\ ~Val(returned').result.ok

\* thread t goes on with its introspection in this step
Introspects(t) ==
    /\ threads[t].pc \in {"get_all_tables", "get_table_schema"}
    /\ threads'[t] # threads[t]
    /\ threads'[t].pc \in {"get_all_tables", "get_table_schema"}

\* C36: a refresh that fails leaves the cache in memory and the persisted
\* document as they were: the step in which refresh_schema or
\* load_schema_from_excel raises changes neither, and neither does a step of
\* the introspection before it, so the tables introspected so far are held by
\* the local dict only.
C36_FailedRefreshLeavesStore ==
    /\ [][RefreshFails => cache' = cache /\ cache_file' = cache_file]_vars
    /\ [][(\E t \in Threads : Introspects(t)) =>
              cache' = cache /\ cache_file' = cache_file]_vars

\* a refresh raised after it had introspected one of the tables, and the cache
\* and the file still hold the snapshot the call had found
C36_Witness ==
    /\ returned # None
    /\ Val(returned).call.refreshes
    /\ ~Val(returned).result.ok
    /\ Val(returned).result.dropped # <<>>
    /\ Val(returned).call.had # None
    /\ cache = Val(returned).call.had
    /\ cache_file = Some(json_dump(Val(cache)))

---------------------------------------------------------------------------
(* the manual and the imported snapshot                                    *)

\* the calls of get_schema without force_refresh that found a snapshot of the
\* manual definition or of the spreadsheet in the cache
GetsOfLoaded == {c \in PlainGets : Val(c.had).tables \in {ManualTables, ExcelTables}}

\* a refresh started by get_schema ends in this step
GetRefreshEnds ==
    /\ returned' # returned
    /\ returned' # None
    /\ Val(returned').call.op = "get_schema"
    /\ Val(returned').call.refreshes

\* C37: get_schema serves a manual or imported snapshot only while
\* is_cache_valid accepts it; the first get_schema after that refreshes by
\* live introspection only: when it succeeds the cache holds the tables of the
\* database in place of the manual or imported ones, and when introspection
\* fails the call raises and returns no snapshot.
C37_LoadedSnapshotExpires ==
    /\ [](\A c \in GetsOfLoaded : c.refreshes <=> Age(c) >= CACHE_TTL)
    /\ [][GetRefreshEnds =>
              IF Val(returned').result.ok
              THEN /\ Val(returned').result.schema.tables \in DbTables
                   /\ Val(returned').result.schema.tables \notin {ManualTables, ExcelTables}
                   /\ cache' = Some(Val(returned').result.schema)
              ELSE /\ Val(returned').result.schema = None
                   /\ cache' = cache]_vars

\* a get_schema that found the manual snapshot expired has replaced it by the
\* tables of the database
C37_Witness ==
    /\ GetEnded
    /\ Val(returned).call \in GetsOfLoaded
    /\ Val(Val(returned).call.had).tables = ManualTables
    /\ Val(returned).call.refreshes
    /\ Val(returned).result.ok
    /\ cache = Some(Val(returned).result.schema)
    /\ Val(cache).tables \in DbTables

---------------------------------------------------------------------------
(* the limit enforcer on a text of several statements                      *)

\* the text holds more than one statement and the first is a SELECT without
\* TOP, OFFSET or FETCH
SeveralWithPlainSelect(text) ==
    /\ Len(sqlparse_parse(text)) > 1
    /\ IsSelectText(sqlparse_parse(text)[1])
    /\ ~HasLimitWord(sqlparse_parse(text)[1])

Semicolons(text) == {i \in 1..Len(text) : text[i] = ";"}

\* the synthesis stage on the text as the oracle's reply, and the validator on
\* what the stage leaves
StagedText(text) ==
    Text2SQLAgent_generate_sql(initial_state(<<>>, FALSE), Reply(text), has_to_unicode)

\* C38: for a text of more than one statement whose first statement is a SELECT
\* without TOP, OFFSET or FETCH, ensure_top_limit returns the first statement
\* with the TOP clause inserted and nothing of the later statements: its only
\* ';' is the one that ends the first statement.  In the synthesis stage the
\* text that reaches the validator therefore holds no second statement and is
\* not rejected by the multi-statement rule.
C38_LaterStatementsDropped ==
    /\ (LimitedOnce /\ SeveralWithPlainSelect(Val(limit_call).sql)) =>
           LET call == Val(limit_call)
               first == sqlparse_parse(call.sql)[1]
               text == Val(call.once).text
           IN /\ text = WithTopAfterSelect(first, call.limit)
              /\ Cardinality(Semicolons(text)) = 1
              /\ Cardinality(Semicolons(call.sql)) >= 1
              /\ Len(text) < Len(call.sql) + Len(<<" ","T","O","P"," ">> \o str_int(call.limit))
              /\ str_rstrip(text, Whitespace)[Len(str_rstrip(text, Whitespace))] = ";"
    /\ (limit_call # None /\ SeveralWithPlainSelect(Val(limit_call).sql)) =>
           LET staged == StagedText(Val(limit_call).sql)
           IN /\ staged.generated_sql # None =>
                     /\ Cardinality(Semicolons(Val(staged.generated_sql))) <= 1
                     /\ ~HasInnerSemicolon(Val(staged.generated_sql))
              /\ validate_sql(staged).validation_message # "Multiple SQL statements not allowed"

\* ensure_top_limit has returned the first statement of "SELECT 1; SELECT 2"
\* with TOP 100, and the text the stage leaves passes the validator
C38_Witness ==
    /\ LimitedOnce
    /\ Val(limit_call).sql = L_TwoStatements
    /\ Val(limit_call).limit = TopLimit
    /\ Val(Val(limit_call).once).text = <<"S","E","L","E","C","T"," ","T","O","P"," ","1","0","0"," ","1",";"," ">>
    /\ StagedText(L_TwoStatements).generated_sql = Some(<<"S","E","L","E","C","T"," ","T","O","P"," ","1","0","0"," ","1",";">>)
    /\ validate_sql(StagedText(L_TwoStatements)).is_valid
====
